---- MODULE Spec2Model ----
(***************************************************************************)
(* A model of the well_agent orchestration core:                           *)
(*   - the Router -> Specialist -> Arbitrator workflow                     *)
(*     (backend/core/workflow.py),                                         *)
(*   - the arbitrator's normalisation of its reasoning output              *)
(*     (backend/agents/arbitrator_agent.py),                               *)
(*   - the skill registry and its reload (backend/skills/registry.py),     *)
(*   - the two-phase analyze of a specialist and the agent-side tool call  *)
(*     (backend/agents/lithology_agent.py, backend/agents/base_agent.py).  *)
(***************************************************************************)
EXTENDS Integers, Sequences, FiniteSets, TLC

VARIABLES
    \* ---- workflow run (AgentState and the graph position) ----
    pc,                 \* node about to run: router, specialist, arbitrator,
                        \* should_continue, END, or raised (invoke raised)
    discussion_history, \* AgentState.discussion_history
    agent_results,      \* AgentState.agent_results
    router_decision,    \* AgentState.router_decision
    arbitrator_output,  \* AgentState.arbitrator_output
    final_output,       \* AgentState.final_output
    round_count,        \* AgentState.round_count
    agents,             \* agent_loader._agents_cache: key -> info
    arb_visits,         \* number of arbitrator_node calls of this run
    last_visit,         \* what the node that ran last did (observation)
    analysis_log,       \* AgentState.analysis_log
    entry,              \* how the run was started: invoke or stream
    pending,            \* stream: node updates astream has not yet yielded
    events,             \* stream: the events event_generator has yielded
    extraction,         \* the request's extract_depth_range_data call
    loader,             \* agent_loader: the two caches and the threads using them
    \* ---- execution tracer (AnalysisLogger) ----
    tracer,             \* the logger get_current_logger() returns, or None
    snapshots,          \* the dicts finalize() has returned, in call order
    now,                \* time.time()
    \* ---- skill registry (SkillRegistry objects, the global, threads) ----
    objs,               \* SkillRegistry objects: id -> [skill_packs, tools]
    registry_global,    \* registry._registry: id of the shared object
    disk,               \* the skills directory: dir -> manifest
    reloader,           \* the thread running reload / reload_skill_registry
    reader,             \* the thread running list / match / execute
    \* ---- the reply of an entry point ----
    response,           \* the run result being formatted, then the reply
    \* ---- one analyze / execute_tool call ----
    call                \* the call in progress and its outcome

vars == <<pc, discussion_history, agent_results, router_decision,
          arbitrator_output, final_output, round_count, agents, arb_visits,
          last_visit, analysis_log, entry, pending, events, extraction, loader,
          response, tracer, snapshots, now, objs, registry_global, disk, reloader,
          reader, call>>

runVars == <<pc, discussion_history, agent_results, router_decision,
             arbitrator_output, final_output, round_count, agents,
             arb_visits, last_visit, analysis_log, entry, pending, events,
             extraction, loader, response>>

trVars == <<tracer, snapshots, now>>

wfVars == <<runVars, trVars>>

regVars == <<objs, registry_global, disk, reloader, reader>>

-----------------------------------------------------------------------------
(* Python values *)

\* Python's None, for a field whose other values are records
None == [none |-> TRUE]

\* Python's None, for a field whose other values are strings (agent keys)
NoKey == "None"

\* a dict key that is absent, where the code reads it with .get(key, default)
Absent == "absent"

\* dict.get(key, default) for a field modelled with Absent
Get(v, default) == IF v = Absent THEN default ELSE v

\* an absent key of a numeric field (confidences are tenths, 0..10)
AbsentNum == 0 - 1

GetNum(v, default) == IF v = AbsentNum THEN default ELSE v

-----------------------------------------------------------------------------
(* Text: strings the code searches are sequences of characters *)

\* str.lower() on one character of the model's alphabet
LowerChar(c) ==
    CASE c = "V" -> "v"
      [] c = "S" -> "s"
      [] c = "H" -> "h"
      [] c = "P" -> "p"
      [] c = "O" -> "o"
      [] c = "R" -> "r"
      [] OTHER -> c

\* str.lower()
Lower(s) == [i \in DOMAIN s |-> LowerChar(s[i])]

\* Python's `needle in hay` for strings (the empty needle is in every string)
Contains(hay, needle) ==
    \E i \in 0..(Len(hay) - Len(needle)) :
        SubSeq(hay, i + 1, i + Len(needle)) = needle

\* str.strip(), for the blank character " "
RECURSIVE StripLeft(_)
StripLeft(s) ==
    IF s # <<>> /\ Head(s) = " " THEN StripLeft(Tail(s)) ELSE s

RECURSIVE StripRight(_)
StripRight(s) ==
    IF s # <<>> /\ s[Len(s)] = " " THEN StripRight(SubSeq(s, 1, Len(s) - 1)) ELSE s

Strip(s) == StripRight(StripLeft(s))

-----------------------------------------------------------------------------
(* The agent table (agent_loader) *)

ArbitratorKey == "Arbitrator"

\* router_node's priority_order
priority_order ==
    <<"ReservoirPropertyExpert", "MudLoggingExpert", "MineralogyExpert",
      "SaturationExpert", "ElectricalExpert", "LithologyExpert">>

\* router_node's default target
DefaultTarget == "LithologyExpert"

\* get_agent(key): the info of a loaded agent, or None
get_agent(key) == IF key \in DOMAIN agents THEN agents[key] ELSE None

\* get_agent_instance(key) is truthy
HasInstance(key) == get_agent(key) # None

\* every key of the table, the arbitrator's included
get_all_agents == DOMAIN agents

\* get_specialist_agents(): the keys of the non-arbitrator agents
get_specialist_agents == {k \in DOMAIN agents : ~agents[k].is_arbitrator}

\* get_agent_skills(key): the skill packs of a loaded agent, or []
get_agent_skills(key) ==
    IF key \in DOMAIN agents THEN agents[key].skill_packs ELSE <<>>

\* get_router_keywords(): key -> keywords, for the specialists
get_router_keywords == [k \in get_specialist_agents |-> agents[k].keywords]

-----------------------------------------------------------------------------
(* Inputs of a workflow run *)

\* round limit of should_continue
MAX_ROUNDS == 5

\* agent tables a process can have loaded from registry.yaml (the file is
\* configuration: a full table, one without the default specialist, one
\* without the arbitrator, and the empty table of a missing file)
FullTable ==
    [k \in {"LithologyExpert", "ReservoirPropertyExpert", ArbitratorKey} |->
        CASE k = "LithologyExpert" ->
                [is_arbitrator |-> FALSE, keywords |-> {<<"V", "s", "h">>},
                 skill_packs |-> <<"lithology-classification", "statistics">>]
          [] k = "ReservoirPropertyExpert" ->
                [is_arbitrator |-> FALSE, keywords |-> {<<"p", "o", "r">>},
                 skill_packs |-> <<>>]
          [] OTHER ->
                [is_arbitrator |-> TRUE, keywords |-> {}, skill_packs |-> <<>>]]

Restrict(f, S) == [k \in (DOMAIN f) \cap S |-> f[k]]

AgentTables ==
    { FullTable,
      Restrict(FullTable, {"ReservoirPropertyExpert", ArbitratorKey}),
      Restrict(FullTable, {"LithologyExpert", "ReservoirPropertyExpert"}),
      Restrict(FullTable, {}) }

\* focus notes / user questions of a request
Questions == { <<"v", "S", "H">>, <<"P", "o", "r">>, <<"x">>, <<" ">> }

\* the history line f"User Note: {question}"
UserNote(q) == [tag |-> "User Note:", text |-> <<" ">> \o q]

\* create_initial_state: the history holds the user's note when one is given
InitialHistories == { <<>> } \cup { <<UserNote(q)>> : q \in Questions }

\* results a specialist's analyze can return to specialist_node: dicts whose
\* confidence and reasoning keys are present or absent
SpecialistResults ==
    { [confidence |-> 8, reasoning |-> "given"],
      [confidence |-> AbsentNum, reasoning |-> Absent] }

\* what the arbitrator's reasoning call can produce (its parsed response)
ArbObject(st, na, qu) ==
    [kind |-> "object", status |-> st, next_agent |-> na,
     question_for_agent |-> qu, confidence |-> 8]

ArbResponses ==
    { [kind |-> "unparsable"], [kind |-> "nonobject"],
      ArbObject("FINAL", NoKey, NoKey),
      ArbObject("FINAL", "LithologyExpert", "q"),
      ArbObject("NEED_MORE_INFO", NoKey, NoKey),
      ArbObject("NEED_MORE_INFO", "LithologyExpert", "q"),
      ArbObject("NEED_MORE_INFO", "UnknownAgent", "q"),
      ArbObject("NEED_MORE_INFO", ArbitratorKey, NoKey),
      ArbObject(Absent, "ReservoirPropertyExpert", NoKey) }

-----------------------------------------------------------------------------
(* load_agents and reload_registry (agent_loader), statement by statement, *)
(* with a thread that reloads and a thread that reads the table            *)

\* reload_registry calls of one behaviour
MaxTableReloads == 1

\* the keys of the agent definitions of registry.yaml, in file order: as
\* load_agents last published them, and as they are now
RegistryFileOld == <<"LithologyExpert", ArbitratorKey>>

RegistryFile == <<"ReservoirPropertyExpert", "LithologyExpert", ArbitratorKey>>

\* the value of yaml.safe_load, and the table built from agent definitions
Registry(defs) == [agents |-> defs]

Table(keys) == [keys |-> keys]

\* the table load_agents builds from the definitions of a registry file
TableOf(defs) == Table({defs[i] : i \in 1..Len(defs)})

\* the {"agents": []} of load_registry's except clause
EmptyRegistry == Registry(<<>>)

ThreadIdle ==
    [pc |-> "idle", force |-> FALSE, reg |-> None, local |-> {}, i |-> 0,
     result |-> None, raised |-> NoKey]

LoaderIdle ==
    [registry_cache |-> None, agents_cache |-> None, w |-> ThreadIdle,
     r |-> ThreadIdle, reloads |-> 0]

Threads == {"w", "r"}

\* reload_registry(), called by the thread w
StartReloadRegistry ==
    /\ loader.w.pc = "idle"
    /\ loader.reloads < MaxTableReloads
    /\ loader' = [loader EXCEPT !.w = [ThreadIdle EXCEPT !.pc = "clear_registry",
                                                         !.force = TRUE],
                                !.reloads = @ + 1]

\* _registry_cache = None
ClearRegistryCache ==
    /\ loader.w.pc = "clear_registry"
    /\ loader' = [loader EXCEPT !.registry_cache = None,
                                !.w.pc = "clear_agents"]

\* _agents_cache = None, then load_agents(force_reload=True)
ClearAgentsCache ==
    /\ loader.w.pc = "clear_agents"
    /\ loader' = [loader EXCEPT !.agents_cache = None, !.w.pc = "la_check"]

\* get_agent, get_specialist_agents or get_router_keywords, called by the
\* thread r: agents = load_agents()
StartRead ==
    /\ loader.r.pc = "idle"
    /\ loader' = [loader EXCEPT !.r = [ThreadIdle EXCEPT !.pc = "la_check"]]

\* load_agents: if _agents_cache is not None and not force_reload
CheckAgentsCache(th) ==
    /\ loader[th].pc = "la_check"
    /\ loader' = [loader EXCEPT ![th].pc =
                     IF loader.agents_cache # None /\ ~loader[th].force
                     THEN "la_return_cache" ELSE "lr_check"]

\* load_agents: return _agents_cache, a second read of the global
ReadCache(cache) == cache

\* the caller then calls agents.get / agents.items: AttributeError on None
ReturnAgentsCache(th) ==
    /\ loader[th].pc = "la_return_cache"
    /\ LET got == ReadCache(loader.agents_cache) IN
       loader' = [loader EXCEPT ![th].pc = "done", ![th].result = got,
                     ![th].raised = IF got = None THEN "AttributeError"
                                    ELSE NoKey]

\* load_registry: if _registry_cache is not None and not force_reload
CheckRegistryCache(th) ==
    /\ loader[th].pc = "lr_check"
    /\ loader' = [loader EXCEPT ![th].pc =
                     IF loader.registry_cache # None /\ ~loader[th].force
                     THEN "lr_return" ELSE "lr_load"]

\* load_registry: _registry_cache = yaml.safe_load(f)
LoadRegistryFile(th) ==
    /\ loader[th].pc = "lr_load"
    /\ loader' = [loader EXCEPT !.registry_cache = Registry(RegistryFile),
                                ![th].pc = "lr_log"]

\* load_registry: logger.info(... len(_registry_cache.get('agents', [])) ...)
\* inside try; on None the except clause returns {"agents": []}
LogRegistryLoaded(th) ==
    /\ loader[th].pc = "lr_log"
    /\ loader' = IF loader.registry_cache = None
                 THEN [loader EXCEPT ![th].pc = "build", ![th].i = 1,
                                     ![th].reg = EmptyRegistry]
                 ELSE [loader EXCEPT ![th].pc = "lr_return"]

\* load_registry: return _registry_cache; load_agents then calls
\* registry.get('agents', []): AttributeError on None
ReturnRegistry(th) ==
    /\ loader[th].pc = "lr_return"
    /\ loader' = IF loader.registry_cache = None
                 THEN [loader EXCEPT ![th].pc = "done",
                                     ![th].raised = "AttributeError"]
                 ELSE [loader EXCEPT ![th].pc = "build", ![th].i = 1,
                                     ![th].reg = loader.registry_cache]

\* load_agents: one turn of the loop over the agent definitions, into the
\* local dict agents
BuildAgent(th) ==
    /\ loader[th].pc = "build"
    /\ loader' = IF loader[th].i > Len(loader[th].reg.agents)
                 THEN [loader EXCEPT ![th].pc = "publish"]
                 ELSE [loader EXCEPT
                          ![th].local = @ \cup {loader[th].reg.agents[loader[th].i]},
                          ![th].i = @ + 1]

\* load_agents: _agents_cache = agents; return agents
PublishAgents(th) ==
    /\ loader[th].pc = "publish"
    /\ loader' = [loader EXCEPT !.agents_cache = Table(loader[th].local),
                                ![th].pc = "done",
                                ![th].result = Table(loader[th].local)]

\* the call has returned (or raised) to its caller
ThreadReturn(th) ==
    /\ loader[th].pc = "done"
    /\ loader' = [loader EXCEPT ![th] = ThreadIdle]

-----------------------------------------------------------------------------
(* ArbitratorAgent.analyze, after the reasoning call *)

Raised == [raised |-> TRUE]

\* the dict returned when parse_json_response raises ValueError
ArbParseError ==
    [status |-> "ERROR", next_agent |-> NoKey, question_for_agent |-> NoKey,
     confidence |-> 0]

\* "Ensure next_agent is valid": a truthy next_agent that is no specialist
\* key is cleared
ValidNextAgentUnchecked(na) == na

ValidNextAgent(na) ==
    IF na # NoKey /\ na \notin get_specialist_agents THEN NoKey ELSE na

\* the status after "Normalize status for backward compatibility"
NormalStatus(st) ==
    IF Get(st, "FINAL") = "NEED_MORE_INFO" THEN "DISCUSSION" ELSE st

ArbitratorAnalyze(resp) ==
    CASE resp.kind = "unparsable" -> ArbParseError
      [] resp.kind = "nonobject" -> Raised   \* result.get on a non-dict
      [] OTHER ->
            [status |-> NormalStatus(resp.status),
             next_agent |-> ValidNextAgent(resp.next_agent),
             question_for_agent |-> resp.question_for_agent,
             confidence |-> resp.confidence]

-----------------------------------------------------------------------------
(* The execution tracer (AnalysisLogger) *)

\* NodeLog(step, node, agent_key): a record opened at time t
NodeLog(step, node, agent_key, t) ==
    [step |-> step, node |-> node, agent_key |-> agent_key,
     decision |-> NoKey, skills_loaded |-> <<>>, llm_call |-> None,
     confidence |-> AbsentNum, duration_ms |-> 0, start_time |-> t]

\* NodeLog.finalize: duration_ms = time.time() - start_time
CloseNode(n, t) == [n EXCEPT !.duration_ms = t - n.start_time]

\* AnalysisLogger.__init__ at time t
NewLogger(t) ==
    [workflow_trace |-> <<>>, current_node |-> None, step_counter |-> 0,
     total_llm_calls |-> 0, total_prompt_tokens |-> 0,
     total_completion_tokens |-> 0, start_time |-> t]

\* the trace once the open record, if any, has been closed and appended
ClosedTrace(lg, t) ==
    IF lg.current_node # None
    THEN Append(lg.workflow_trace, CloseNode(lg.current_node, t))
    ELSE lg.workflow_trace

\* a start_node that drops the open record instead of appending it
start_node_dropping(lg, node_name, agent_key, t) ==
    [lg EXCEPT !.step_counter = lg.step_counter + 1,
               !.current_node =
                   NodeLog(lg.step_counter + 1, node_name, agent_key, t)]

\* a start_node that numbers the new record like the one before it
start_node_same_step(lg, node_name, agent_key, t) ==
    [lg EXCEPT !.workflow_trace = ClosedTrace(lg, t),
               !.current_node =
                   NodeLog(lg.step_counter, node_name, agent_key, t)]

\* AnalysisLogger.start_node
start_node(lg, node_name, agent_key, t) ==
    [lg EXCEPT !.workflow_trace = ClosedTrace(lg, t),
               !.step_counter = lg.step_counter + 1,
               !.current_node =
                   NodeLog(lg.step_counter + 1, node_name, agent_key, t)]

\* AnalysisLogger.log_router_decision
log_router_decision(lg, target_agent) ==
    IF lg.current_node # None
    THEN [lg EXCEPT !.current_node =
                [lg.current_node EXCEPT !.decision = target_agent]]
    ELSE lg

InSeq(x, q) == \E i \in 1..Len(q) : q[i] = x

\* AnalysisLogger.log_skill_loaded
log_skill_loaded(lg, skill_name) ==
    IF lg.current_node # None /\ ~InSeq(skill_name, lg.current_node.skills_loaded)
    THEN [lg EXCEPT !.current_node =
                [lg.current_node EXCEPT
                    !.skills_loaded = Append(lg.current_node.skills_loaded,
                                             skill_name)]]
    ELSE lg

\* AnalysisLogger.log_llm_call
log_llm_call(lg, usage) ==
    [lg EXCEPT !.current_node =
                   IF lg.current_node # None
                   THEN [lg.current_node EXCEPT !.llm_call = usage]
                   ELSE None,
               !.total_llm_calls = lg.total_llm_calls + 1,
               !.total_prompt_tokens =
                   lg.total_prompt_tokens + usage.prompt_tokens,
               !.total_completion_tokens =
                   lg.total_completion_tokens + usage.completion_tokens]

\* AnalysisLogger.log_confidence
log_confidence(lg, confidence) ==
    IF lg.current_node # None
    THEN [lg EXCEPT !.current_node =
                [lg.current_node EXCEPT !.confidence = confidence]]
    ELSE lg

\* the logger after finalize(): the open record is closed and appended
Finalized(lg, t) ==
    [lg EXCEPT !.workflow_trace = ClosedTrace(lg, t),
               !.current_node = None]

\* a snapshot that holds the logger's own workflow_trace list
SnapshotTraceAliased(trace) == [alias |-> TRUE]

\* "workflow_trace": [asdict(n) for n in self.workflow_trace], a new list of
\* new dicts
SnapshotTrace(trace) == [copy |-> trace]

\* the dict finalize() returns at time t; saved says whether the log file
\* could be written ("log_file" is added to the dict when it could)
FinalizeResult(lg, t, saved) ==
    LET trace == ClosedTrace(lg, t) IN
    [duration_ms |-> t - lg.start_time,
     workflow_trace |-> SnapshotTrace(trace),
     total_steps |-> Len(trace),
     total_llm_calls |-> lg.total_llm_calls,
     total_tokens |-> lg.total_prompt_tokens + lg.total_completion_tokens,
     prompt_tokens |-> lg.total_prompt_tokens,
     completion_tokens |-> lg.total_completion_tokens,
     log_file |-> saved]

\* what a holder of a snapshot reads as its workflow_trace, the logger being
\* in state lg
SnapshotContent(snap, lg) ==
    IF "alias" \in DOMAIN snap.workflow_trace
    THEN lg.workflow_trace
    ELSE snap.workflow_trace.copy

-----------------------------------------------------------------------------
(* Workflow nodes *)

\* AgentState.discussion_history is Annotated[List[str], operator.add]: a
\* node's update is appended to the history
HistoryReplace(history, update) == update

HistoryAdd(history, update) == history \o update

\* router_node: the query taken from the history
IsUserEntry(msg) == msg.tag \in {"User Note:", "User Follow-up:"}

RECURSIVE LatestUserQuery(_)
LatestUserQuery(h) ==
    IF h = <<>> THEN <<>>
    ELSE IF IsUserEntry(h[Len(h)]) THEN Strip(h[Len(h)].text)
    ELSE LatestUserQuery(SubSeq(h, 1, Len(h) - 1))

\* the characters of a whole history line (only user lines exist when the
\* router runs)
LineText(msg) ==
    IF IsUserEntry(msg) THEN <<"u", "s", "e", "r", ":">> \o msg.text
    ELSE IF "text" \in DOMAIN msg THEN msg.text
    ELSE <<"a", ":">>

RouterQuery(h) ==
    IF h = <<>> THEN <<>>
    ELSE IF LatestUserQuery(h) # <<>> THEN LatestUserQuery(h)
    ELSE LineText(h[1])

KeywordHit(key, query_lower) ==
    /\ key \in DOMAIN get_router_keywords
    /\ \E k \in get_router_keywords[key] : Contains(query_lower, Lower(k))

RECURSIVE FirstHit(_, _)
FirstHit(i, query_lower) ==
    IF i > Len(priority_order) THEN DefaultTarget
    ELSE IF KeywordHit(priority_order[i], query_lower) THEN priority_order[i]
    ELSE FirstHit(i + 1, query_lower)

\* a router whose answer depends on the decision already in the state
RouterTargetFromPrevious(h) ==
    IF router_decision = NoKey THEN FirstHit(1, Lower(RouterQuery(h)))
    ELSE DefaultTarget

RouterTarget(h) == FirstHit(1, Lower(RouterQuery(h)))

\* token usage the reasoning service reports for a call of a run
RunUsage == [prompt_tokens |-> 2, completion_tokens |-> 1]

\* astream has handed every node update to its consumer (always so under
\* invoke, which has no consumer)
Consumed == pending = None

\* the update astream yields for a node, under stream
Yielded(node_name, lines, final) ==
    IF entry = "stream"
    THEN [node |-> node_name, discussion_history |-> lines,
          final_output |-> final]
    ELSE None

router_node ==
    /\ pc = "router"
    /\ Consumed
    /\ router_decision' = RouterTarget(discussion_history)
    /\ pc' = "specialist"
    /\ last_visit' = [node |-> "router"]
    /\ tracer' = IF tracer = None THEN None
                 ELSE log_router_decision(
                          start_node(tracer, "router", NoKey, now),
                          RouterTarget(discussion_history))
    /\ pending' = Yielded("router", <<>>, None)
    /\ UNCHANGED <<discussion_history, agent_results, arbitrator_output,
                   final_output, round_count, agents, arb_visits,
                   analysis_log, entry, events, extraction, loader, response, snapshots, now>>

\* specialist_node: the agent key and the question of this visit
HasDirective ==
    /\ arbitrator_output # None
    /\ arbitrator_output.next_agent # NoKey

\* a specialist node that always takes the router's key
SpecialistKeyRouterOnly == router_decision

SpecialistKey ==
    IF HasDirective THEN arbitrator_output.next_agent ELSE router_decision

SpecialistQuestion ==
    IF HasDirective THEN arbitrator_output.question_for_agent ELSE NoKey

\* f"{agent_key}: Conf={confidence}. {reasoning}", with the defaults of
\* result.get('confidence', 0.0) and result.get('reasoning', str(result))
SpecialistMsg(key, result) ==
    [tag |-> "specialist", key |-> key,
     confidence |-> GetNum(result.confidence, 0),
     reasoning |-> Get(result.reasoning, "str(result)")]

\* an error line that does not name the missing agent
AgentNotFoundMsgNoKey(key) == [tag |-> "Error", key |-> NoKey]

\* f"Error: Agent {agent_key} not found"
AgentNotFoundMsg(key) == [tag |-> "Error", key |-> key]

\* a store in which the first result of a key is kept
PutKeepFirst(f, k, v) ==
    [x \in (DOMAIN f) \cup {k} |-> IF x \in DOMAIN f THEN f[x] ELSE v]

\* agent_results = state["agent_results"].copy(); agent_results[key] = result
Put(f, k, v) == [x \in (DOMAIN f) \cup {k} |-> IF x = k THEN v ELSE f[x]]

\* a specialist node that leaves the arbitrator's output in the state
DirectiveKept == arbitrator_output

\* "arbitrator_output": None  # Clear for next round
DirectiveCleared == None

\* for skill in agent_skills: analysis_log.log_skill_loaded(skill)
RECURSIVE LogSkills(_, _)
LogSkills(lg, skills) ==
    IF skills = <<>> THEN lg
    ELSE LogSkills(log_skill_loaded(lg, Head(skills)), Tail(skills))

\* the logger calls of a specialist visit that runs agent_key: start_node,
\* the skills, the reasoning call of analyze and, when analyze returns, the
\* confidence
SpecialistTrace(lg, agent_key, result) ==
    LET started == log_llm_call(
                       LogSkills(start_node(lg, "specialist", agent_key, now),
                                 get_agent_skills(agent_key)),
                       RunUsage)
    IN  IF result = Raised THEN started
        ELSE log_confidence(started, GetNum(result.confidence, 0))

specialist_node ==
    /\ pc = "specialist"
    /\ Consumed
    /\ LET agent_key == SpecialistKey
           via == IF HasDirective THEN "directive" ELSE "router"
       IN  IF ~HasInstance(agent_key)
           THEN /\ discussion_history' =
                       HistoryAdd(discussion_history, <<AgentNotFoundMsg(agent_key)>>)
                /\ pending' = Yielded("specialist",
                                      <<AgentNotFoundMsg(agent_key)>>, None)
                /\ tracer' = tracer
                /\ pc' = "arbitrator"
                /\ last_visit' = [node |-> "specialist", agent_key |-> agent_key,
                                  via |-> via, resolved |-> FALSE,
                                  question |-> SpecialistQuestion]
                /\ UNCHANGED <<agent_results, arbitrator_output>>
           ELSE \E result \in SpecialistResults \cup {Raised} :
                  /\ last_visit' = [node |-> "specialist", agent_key |-> agent_key,
                                    via |-> via, resolved |-> TRUE,
                                    question |-> SpecialistQuestion]
                  /\ tracer' = IF tracer = None THEN None
                               ELSE SpecialistTrace(tracer, agent_key, result)
                  /\ IF result = Raised
                     THEN /\ pc' = "raised"
                          /\ UNCHANGED <<discussion_history, agent_results,
                                         arbitrator_output, pending>>
                     ELSE /\ discussion_history' =
                                 HistoryAdd(discussion_history,
                                            <<SpecialistMsg(agent_key, result)>>)
                          /\ pending' =
                                 Yielded("specialist",
                                         <<SpecialistMsg(agent_key, result)>>,
                                         None)
                          /\ agent_results' = Put(agent_results, agent_key, result)
                          /\ arbitrator_output' = DirectiveCleared
                          /\ pc' = "arbitrator"
    /\ UNCHANGED <<router_decision, final_output, round_count, agents,
                   arb_visits, analysis_log, entry, events, extraction, loader, response,
                   snapshots, now>>

\* arbitrator_node
\* a history line that never names the dispatch target
ArbitratorMsgNoDispatch(result) ==
    [tag |-> "Arbitrator", status |-> Get(result.status, "UNKNOWN"),
     confidence |-> result.confidence, dispatch |-> NoKey, question |-> NoKey]

\* f"Arbitrator: Status={status}. Decision={decision} (Conf: {confidence}).
\* {reasoning}" followed, when next_agent is truthy, by "-> Dispatching to:
\* {next_agent}" and the question
ArbitratorMsg(result) ==
    [tag |-> "Arbitrator", status |-> Get(result.status, "UNKNOWN"),
     confidence |-> result.confidence,
     dispatch |-> result.next_agent,
     question |-> IF result.next_agent # NoKey
                  THEN result.question_for_agent ELSE NoKey]

ArbitratorNotFound == [status |-> "ERROR", decision |-> "Arbitrator not found"]

\* "final_output": result if status == "FINAL" else None
FinalOutputAlways(result) == result

\* a node that also publishes a result whose status is ERROR
FinalOutputOrError(result) ==
    IF Get(result.status, "UNKNOWN") \in {"FINAL", "ERROR"} THEN result ELSE None

FinalOutputOf(result) ==
    IF Get(result.status, "UNKNOWN") = "FINAL" THEN result ELSE None

\* "round_count": state["round_count"] + 1
NextRoundSame(r) == r

NextRound(r) == r + 1

\* if status == "FINAL" and analysis_log: finalized_log = analysis_log.finalize()
Finalizes(result) == Get(result.status, "UNKNOWN") = "FINAL"

arbitrator_node ==
    /\ pc = "arbitrator"
    /\ Consumed
    /\ arb_visits' = arb_visits + 1
    /\ LET started == IF tracer = None THEN None
                      ELSE start_node(tracer, "arbitrator", ArbitratorKey, now)
       IN
       IF ~HasInstance(ArbitratorKey)
       THEN /\ final_output' = ArbitratorNotFound
            /\ pc' = "should_continue"
            /\ last_visit' = [node |-> "arbitrator", resolved |-> FALSE]
            /\ tracer' = started
            /\ pending' = Yielded("arbitrator", <<>>, ArbitratorNotFound)
            /\ UNCHANGED <<discussion_history, arbitrator_output, round_count,
                           analysis_log, snapshots>>
       ELSE \E resp \in ArbResponses :
              LET result == ArbitratorAnalyze(resp)
                  called == IF tracer = None THEN None
                            ELSE log_llm_call(started, RunUsage)
              IN
              /\ last_visit' = [node |-> "arbitrator", resolved |-> TRUE,
                                response |-> resp]
              /\ IF result = Raised
                 THEN /\ pc' = "raised"
                      /\ tracer' = called
                      /\ UNCHANGED <<discussion_history, arbitrator_output,
                                     final_output, round_count, analysis_log,
                                     snapshots, pending>>
                 ELSE /\ arbitrator_output' = result
                      /\ final_output' = FinalOutputOf(result)
                      /\ discussion_history' =
                             HistoryAdd(discussion_history, <<ArbitratorMsg(result)>>)
                      /\ round_count' = NextRound(round_count)
                      /\ pc' = "should_continue"
                      /\ pending' = Yielded("arbitrator",
                                            <<ArbitratorMsg(result)>>,
                                            FinalOutputOf(result))
                      /\ IF tracer # None /\ Finalizes(result)
                         THEN \E saved \in BOOLEAN :
                                LET lg == log_confidence(called, result.confidence)
                                    finalized_log ==
                                        FinalizeResult(lg, now, saved)
                                IN  /\ tracer' = Finalized(lg, now)
                                    /\ snapshots' =
                                           Append(snapshots, finalized_log)
                                    /\ analysis_log' = finalized_log
                         ELSE /\ tracer' =
                                    IF tracer = None THEN None
                                    ELSE log_confidence(called, result.confidence)
                              /\ UNCHANGED <<analysis_log, snapshots>>
    /\ UNCHANGED <<agent_results, router_decision, agents, entry, events,
                   extraction, loader, response, now>>

\* should_continue: "end" or "dispatch"
should_continue_no_limit ==
    IF arbitrator_output # None /\ Get(arbitrator_output.status, NoKey) = "FINAL"
    THEN "end"
    ELSE IF arbitrator_output # None /\ arbitrator_output.next_agent # NoKey
    THEN "dispatch"
    ELSE "end"

should_continue_dispatch_first ==
    IF arbitrator_output # None /\ arbitrator_output.next_agent # NoKey
          /\ round_count < MAX_ROUNDS
    THEN "dispatch"
    ELSE "end"

should_continue ==
    IF arbitrator_output # None /\ Get(arbitrator_output.status, NoKey) = "FINAL"
    THEN "end"
    ELSE IF round_count >= MAX_ROUNDS THEN "end"
    ELSE IF arbitrator_output # None /\ arbitrator_output.next_agent # NoKey
    THEN "dispatch"
    ELSE "end"

\* a graph whose dispatch edge leads back to the arbitrator
EdgeTargetArbitrator(answer) ==
    IF answer = "dispatch" THEN "arbitrator" ELSE "END"

\* add_conditional_edges("arbitrator", should_continue,
\*                       {"dispatch": "specialist", "end": END})
EdgeTarget(answer) ==
    IF answer = "dispatch" THEN "specialist" ELSE "END"

\* build_workflow's conditional edge after the arbitrator
conditional_edge ==
    /\ pc = "should_continue"
    /\ pc' = EdgeTarget(should_continue)
    /\ UNCHANGED <<discussion_history, agent_results, router_decision,
                   arbitrator_output, final_output, round_count, agents,
                   arb_visits, last_visit, analysis_log, entry, pending,
                   events, extraction, loader, response, trVars>>

\* analyze_stream.event_generator: the events of one node update, an
\* agent_message for every history line of the update (every line a node
\* writes holds a ":") and a final_decision when the update's final_output
\* has status FINAL
\* a generator that reports only the lines that carry a confidence
RECURSIVE AgentMessagesWithConf(_)
AgentMessagesWithConf(lines) ==
    IF lines = <<>> THEN <<>>
    ELSE (IF "confidence" \in DOMAIN Head(lines)
          THEN <<[type |-> "agent_message", line |-> Head(lines)]>>
          ELSE <<>>)
            \o AgentMessagesWithConf(Tail(lines))

RECURSIVE AgentMessages(_)
AgentMessages(lines) ==
    IF lines = <<>> THEN <<>>
    ELSE <<[type |-> "agent_message", line |-> Head(lines)]>>
            \o AgentMessages(Tail(lines))

FinalDecision(final) ==
    IF final # None /\ Get(final.status, NoKey) = "FINAL"
    THEN <<[type |-> "final_decision", final |-> final]>>
    ELSE <<>>

UpdateEvents(update) ==
    AgentMessages(update.discussion_history) \o FinalDecision(update.final_output)

\* the generator has yielded its terminal marker
StreamClosed ==
    /\ events # <<>>
    /\ events[Len(events)].type \in {"done", "error"}

\* the body of "async for event in workflow_app.astream(initial_state)"
stream_update ==
    /\ entry = "stream"
    /\ pending # None
    /\ events' = events \o UpdateEvents(pending)
    /\ pending' = None
    /\ UNCHANGED <<pc, discussion_history, agent_results, router_decision,
                   arbitrator_output, final_output, round_count, agents,
                   arb_visits, last_visit, analysis_log, entry, extraction, loader, response,
                   trVars>>

\* astream is exhausted: yield the done event
stream_done ==
    /\ entry = "stream"
    /\ pc = "END"
    /\ pending = None
    /\ ~StreamClosed
    /\ events' = Append(events, [type |-> "done"])
    /\ UNCHANGED <<pc, discussion_history, agent_results, router_decision,
                   arbitrator_output, final_output, round_count, agents,
                   arb_visits, last_visit, analysis_log, entry, pending,
                   extraction, loader, response, trVars>>

\* astream raised: except Exception yields the error event
stream_error ==
    /\ entry = "stream"
    /\ pc = "raised"
    /\ pending = None
    /\ ~StreamClosed
    /\ events' = Append(events, [type |-> "error"])
    /\ UNCHANGED <<pc, discussion_history, agent_results, router_decision,
                   arbitrator_output, final_output, round_count, agents,
                   arb_visits, last_visit, analysis_log, entry, pending,
                   extraction, loader, response, trVars>>

\* create_initial_state and the entry point of the graph, for a run started
\* by run_analysis ("invoke") or by analyze_stream ("stream")
InitRun(how) ==
    /\ pc = "router"
    /\ discussion_history \in InitialHistories
    /\ agent_results = <<>>
    /\ router_decision = NoKey
    /\ arbitrator_output = None
    /\ final_output = None
    /\ round_count = 0
    /\ agents \in AgentTables
    /\ arb_visits = 0
    /\ last_visit = [node |-> "start"]
    /\ analysis_log = None
    /\ entry = how
    /\ pending = None
    /\ events = <<>>
    /\ extraction = None
    /\ loader = LoaderIdle /\ response = None
    /\ now = 0
    \* run_analysis installs an AnalysisLogger before invoke; analyze_stream
    \* installs none
    /\ tracer = IF how = "invoke" THEN NewLogger(0) ELSE None
    /\ snapshots = <<>>

InitWorkflow == InitRun("invoke")

NextWorkflow ==
    \/ router_node
    \/ specialist_node
    \/ arbitrator_node
    \/ conditional_edge

-----------------------------------------------------------------------------
(* The skills directory and the index SkillRegistry builds from it *)

\* number of reload calls a behaviour makes
MaxReloads == 2

LithDir == "lithology-classification"
StatDir == "statistics"

\* the immediate subdirectories of skills_dir
Dirs == {LithDir, StatDir}

\* one tool of a tools.yaml: entry_point stands for what its resolution
\* does: "ok" (script found, body returns), "noscript" (no script file),
\* "raises" (the body raises), Absent (no entry_point key)
ToolDef(name, kw, ep) ==
    [name |-> name, trigger_keywords |-> kw, entry_point |-> ep]

CalcVsh == ToolDef("calculate_vsh", {<<"V", "s", "h">>, <<"s", "h">>}, "ok")
Crossplot == ToolDef("analyze_crossplot", {<<"x">>}, "raises")
FindExtremes == ToolDef("find_extremes", {<<"p", "o", "r">>}, "noscript")
NoEntryTool == ToolDef("draft_tool", {}, Absent)

\* a tools.yaml entry whose name is a YAML list: a dict like the others, but
\* self.tools[tool_name] = tool_def raises TypeError (unhashable key)
UnhashableName == "unhashable"
BrokenTool == ToolDef(UnhashableName, {<<"x">>}, "ok")

\* one directory: kind is "yaml" (tools.yaml), "bad" (a manifest that does
\* not parse), "none" (no manifest); pack is the manifest's skill_pack key
YamlManifest(pack, tools) == [kind |-> "yaml", pack |-> pack, tools |-> tools]
BadManifest == [kind |-> "bad"]
NoManifest == [kind |-> "none"]

DiskA ==
    [d \in Dirs |->
        IF d = LithDir THEN YamlManifest("lithology", <<CalcVsh, Crossplot>>)
        ELSE YamlManifest(Absent, <<FindExtremes>>)]

DiskB ==
    [d \in Dirs |->
        IF d = LithDir THEN YamlManifest("lithology", <<CalcVsh, NoEntryTool>>)
        ELSE BadManifest]

DiskC ==
    [d \in Dirs |->
        IF d = LithDir
        THEN YamlManifest("lithology", <<CalcVsh, BrokenTool, Crossplot>>)
        ELSE YamlManifest("statistics", <<FindExtremes>>)]

DiskConfigs == {DiskA, DiskB, DiskC}

\* pack_name = metadata.get('skill_pack', metadata.get('name', skill_dir_name))
PackName(d, m) == Get(m.pack, d)

\* the skill packs the manifest of a directory declares, on either disk
DirPacks(d) ==
    IF d \notin Dirs THEN {}
    ELSE {PackName(d, dk[d]) : dk \in {x \in DiskConfigs : x[d].kind = "yaml"}}

\* a tool dict as parsed from the manifest, before _register_tool
ParsedTool(t) ==
    [name |-> t.name, trigger_keywords |-> t.trigger_keywords,
     entry_point |-> t.entry_point, skill_pack |-> Absent, directory |-> Absent]

RECURSIVE ParsedSeq(_)
ParsedSeq(ts) ==
    IF ts = <<>> THEN <<>> ELSE <<ParsedTool(Head(ts))>> \o ParsedSeq(Tail(ts))

ParsedTools(m) == ParsedSeq(m.tools)

\* _register_tool: tool_def['directory'] = skill_path
RegisteredDirectoryOfPackName(pack_name, skill_path) == pack_name

RegisteredDirectory(pack_name, skill_path) == skill_path

\* a tool dict after _register_tool
RegisteredTool(t, pack_name, skill_path) ==
    [t EXCEPT !.skill_pack = pack_name,
              !.directory = RegisteredDirectory(pack_name, skill_path)]

\* self.tools is a dict keyed by tool name: a sequence of tool dicts with
\* distinct names, in insertion order
DictHas(dict, name) == \E i \in DOMAIN dict : dict[i].name = name

DictGet(dict, name) == dict[CHOOSE i \in DOMAIN dict : dict[i].name = name]

DictPut(dict, t) ==
    IF DictHas(dict, t.name)
    THEN [i \in DOMAIN dict |-> IF dict[i].name = t.name THEN t ELSE dict[i]]
    ELSE Append(dict, t)

\* self.skill_packs = {} and self.tools = {}
EmptyIndex == [skill_packs |-> <<>>, tools |-> <<>>]

\* _load_skill run to its end on one directory
RECURSIVE RegisterAll(_, _, _, _)
RegisterAll(idx, pack_name, d, i) ==
    LET pack == idx.skill_packs[pack_name] IN
    IF i > Len(pack.tools) THEN idx
    ELSE IF pack.tools[i].name = Absent
    THEN RegisterAll(idx, pack_name, d, i + 1)
    ELSE LET t == RegisteredTool(pack.tools[i], pack_name, d)
             packs2 == Put(idx.skill_packs, pack_name,
                           [pack EXCEPT !.tools[i] = t])
         IN  IF t.name = UnhashableName
             THEN [skill_packs |-> packs2, tools |-> idx.tools]
             ELSE RegisterAll([skill_packs |-> packs2,
                               tools |-> DictPut(idx.tools, t)],
                              pack_name, d, i + 1)

LoadSkill(idx, d, m) ==
    IF m.kind # "yaml" THEN idx
    ELSE LET pack_name == PackName(d, m)
             published ==
                 [idx EXCEPT !.skill_packs =
                     Put(idx.skill_packs, pack_name,
                         [directory |-> d, tools |-> ParsedTools(m)])]
         IN  RegisterAll(published, pack_name, d, 1)

\* reload run to its end, the directories listed in the given order
RECURSIVE LoadDirs(_, _, _)
LoadDirs(idx, dk, order) ==
    IF order = <<>> THEN idx
    ELSE LoadDirs(LoadSkill(idx, Head(order), dk[Head(order)]), dk, Tail(order))

ListOrders == { <<LithDir, StatDir>>, <<StatDir, LithDir>> }

\* every complete index a load of one of the disks can produce
CompleteIndexes ==
    { LoadDirs(EmptyIndex, dk, order) : dk \in DiskConfigs, order \in ListOrders }

-----------------------------------------------------------------------------
(* Readers of the index, on a complete index *)

\* list_tools_for_agent: available_tools.extend(pack['tools'])
PackToolsFirstOnly(pack) ==
    IF pack.tools = <<>> THEN <<>> ELSE <<pack.tools[1]>>

PackTools(pack) == pack.tools

\* list_tools_for_agent on an index that does not change
RECURSIVE ListFor(_, _)
ListFor(idx, packs) ==
    IF packs = <<>> THEN <<>>
    ELSE (IF Head(packs) \in DOMAIN idx.skill_packs
          THEN PackTools(idx.skill_packs[Head(packs)]) ELSE <<>>)
         \o ListFor(idx, Tail(packs))

\* the keyword test of match_tools_by_keywords
ToolMatches(tool, user_question) ==
    \E kw \in tool.trigger_keywords : Contains(Lower(user_question), Lower(kw))

\* the inner loop of match_tools_by_keywords: what one candidate adds to
\* matched (append, then break)
MatchedPerKeyword(tool, user_question) ==
    LET n == Cardinality({kw \in tool.trigger_keywords :
                             Contains(Lower(user_question), Lower(kw))})
    IN  [i \in 1..n |-> tool]

MatchedOnce(tool, user_question) ==
    IF ToolMatches(tool, user_question) THEN <<tool>> ELSE <<>>

RECURSIVE FilterMatches(_, _)
FilterMatches(tools, user_question) ==
    IF tools = <<>> THEN <<>>
    ELSE MatchedOnce(Head(tools), user_question)
         \o FilterMatches(Tail(tools), user_question)

\* execute_tool, from the descriptor found: what the call does
ExecuteOutcome(tool_info) ==
    CASE tool_info.entry_point = Absent -> "ValueError"
      [] tool_info.entry_point = "noscript" -> "ImportError"
      [] tool_info.entry_point = "raises" -> "Exception"
      [] OTHER -> "returned"

-----------------------------------------------------------------------------
(* reload, step by step, on a SkillRegistry object other threads can read *)

ReloaderIdle(n) ==
    [pc |-> "idle", mode |-> "none", target |-> 0, todo |-> {},
     dir |-> "none", i |-> 0, done |-> n, caught |-> 0,
     prev |-> None, last |-> None]

TargetIndex == objs[reloader.target]

SetTarget(idx) == objs' = [objs EXCEPT ![reloader.target] = idx]

\* registry.reload() called on the shared object (verify_migration.py)
StartReloadInPlace ==
    /\ reloader.pc = "idle"
    /\ reloader.done < MaxReloads
    /\ reloader' = [reloader EXCEPT !.pc = "clear_packs", !.mode = "inplace",
                                    !.target = registry_global]
    /\ UNCHANGED <<objs, registry_global, disk, reader>>

\* reload_skill_registry(): SkillRegistry() builds a new object, and its
\* __init__ calls reload on it
StartReloadSwap ==
    /\ reloader.pc = "idle"
    /\ reloader.done < MaxReloads
    /\ LET new == Len(objs) + 1 IN
       /\ objs' = Append(objs, EmptyIndex)
       /\ reloader' = [reloader EXCEPT !.pc = "clear_packs", !.mode = "swap",
                                       !.target = new]
    /\ UNCHANGED <<registry_global, disk, reader>>

\* self.skill_packs = {}
ClearPacks ==
    /\ reloader.pc = "clear_packs"
    /\ SetTarget([TargetIndex EXCEPT !.skill_packs = <<>>])
    /\ reloader' = [reloader EXCEPT !.pc = "clear_tools"]
    /\ UNCHANGED <<registry_global, disk, reader>>

\* os.listdir(self.skills_dir), limited to the directories
ListedDirsFirstReloadOnly == IF reloader.done = 0 THEN Dirs ELSE {LithDir}

ListedDirs == Dirs

\* self.tools = {}
ClearTools ==
    /\ reloader.pc = "clear_tools"
    /\ SetTarget([TargetIndex EXCEPT !.tools = <<>>])
    /\ reloader' = [reloader EXCEPT !.pc = "scan", !.todo = ListedDirs]
    /\ UNCHANGED <<registry_global, disk, reader>>

\* one iteration of the loop over os.listdir: _load_skill up to the
\* registration of the pack (a manifest that does not parse raises, which
\* reload catches and logs)
ScanDir ==
    /\ reloader.pc = "scan"
    /\ \E d \in reloader.todo :
         LET m == disk[d] IN
         IF m.kind # "yaml"
         THEN /\ reloader' = [reloader EXCEPT
                                 !.todo = @ \ {d},
                                 !.caught = IF m.kind = "bad" THEN @ + 1 ELSE @]
              /\ UNCHANGED objs
         ELSE /\ SetTarget([TargetIndex EXCEPT !.skill_packs =
                     Put(@, PackName(d, m),
                         [directory |-> d, tools |-> ParsedTools(m)])])
              /\ reloader' = [reloader EXCEPT !.pc = "reg_pack", !.dir = d,
                                              !.i = 1, !.todo = @ \ {d}]
    /\ UNCHANGED <<registry_global, disk, reader>>

RegPackName == PackName(reloader.dir, disk[reloader.dir])

RegPack == TargetIndex.skill_packs[RegPackName]

SetRegTool(t) ==
    SetTarget([TargetIndex EXCEPT
                  !.skill_packs[RegPackName].tools[reloader.i] = t])

\* _register_tool: the name test, then tool_def['skill_pack'] = pack_name
RegisterSetPack ==
    /\ reloader.pc = "reg_pack"
    /\ IF reloader.i > Len(RegPack.tools)
       THEN /\ reloader' = [reloader EXCEPT !.pc = "scan", !.dir = "none", !.i = 0]
            /\ UNCHANGED objs
       ELSE IF RegPack.tools[reloader.i].name = Absent
       THEN /\ reloader' = [reloader EXCEPT !.i = @ + 1]
            /\ UNCHANGED objs
       ELSE /\ SetRegTool([RegPack.tools[reloader.i] EXCEPT
                              !.skill_pack = RegPackName])
            /\ reloader' = [reloader EXCEPT !.pc = "reg_dir"]
    /\ UNCHANGED <<registry_global, disk, reader>>

\* _register_tool: tool_def['directory'] = skill_path
RegisterSetDirectory ==
    /\ reloader.pc = "reg_dir"
    /\ SetRegTool([RegPack.tools[reloader.i] EXCEPT
                      !.directory = RegisteredDirectory(RegPackName, reloader.dir)])
    /\ reloader' = [reloader EXCEPT !.pc = "reg_insert"]
    /\ UNCHANGED <<registry_global, disk, reader>>

\* _register_tool: self.tools[tool_name] = tool_def; a TypeError it raises
\* ends _load_skill for this directory and is caught and logged by reload
RegisterInsert ==
    /\ reloader.pc = "reg_insert"
    /\ IF RegPack.tools[reloader.i].name = UnhashableName
       THEN /\ reloader' = [reloader EXCEPT !.pc = "scan", !.dir = "none",
                                            !.i = 0, !.caught = @ + 1]
            /\ UNCHANGED objs
       ELSE /\ SetTarget([TargetIndex EXCEPT
                             !.tools = DictPut(@, RegPack.tools[reloader.i])])
            /\ reloader' = [reloader EXCEPT !.pc = "reg_pack", !.i = @ + 1]
    /\ UNCHANGED <<registry_global, disk, reader>>

\* reload returns; reload_skill_registry then assigns the global
FinishReload ==
    /\ reloader.pc = "scan"
    /\ reloader.todo = {}
    /\ registry_global' =
           IF reloader.mode = "swap" THEN reloader.target ELSE registry_global
    /\ reloader' = [ReloaderIdle(reloader.done + 1) EXCEPT
                        !.prev = reloader.last, !.last = TargetIndex]
    /\ UNCHANGED <<objs, disk, reader>>

-----------------------------------------------------------------------------
(* list_tools_for_agent, match_tools_by_keywords and execute_tool, step by  *)
(* step, in a thread running beside the reload                              *)

ReaderIdle ==
    [pc |-> "idle", op |-> "none", obj |-> 0, packs |-> <<>>,
     question |-> <<>>, name |-> NoKey, via |-> "none", i |-> 0,
     acc |-> <<>>, raised |-> NoKey, value |-> <<>>, tool |-> None]

\* the skill_packs lists of the agents, the questions and the tool names
\* the calls are made with
PackLists == { <<"lithology", "statistics">>, <<"unknown", "lithology">> }

ReadQuestions == { <<"v", "S", "H">> }

ToolNames == { "calculate_vsh", "analyze_crossplot", "find_extremes",
               "draft_tool", "no_such_tool" }

\* a call starts with get_skill_registry(): the object the global names
StartListWith(packLists) ==
    /\ reader.pc = "idle"
    /\ \E packs \in packLists :
         reader' = [ReaderIdle EXCEPT !.pc = "check", !.op = "list",
                       !.obj = registry_global, !.packs = packs, !.i = 1]
    /\ UNCHANGED <<objs, registry_global, disk, reloader>>

StartList == StartListWith(PackLists)

\* match_tools_by_keywords: `if agent_skill_packs:` chooses between the
\* tools of the packs and all the tools
StartMatchWith(packLists, questions) ==
    /\ reader.pc = "idle"
    /\ \E packs \in packLists, q \in questions :
         reader' = [ReaderIdle EXCEPT
                       !.pc = IF packs = <<>> THEN "all_tools" ELSE "check",
                       !.op = "match", !.obj = registry_global,
                       !.packs = packs, !.question = q, !.i = 1]
    /\ UNCHANGED <<objs, registry_global, disk, reloader>>

StartMatch == StartMatchWith(PackLists \cup {<<>>}, ReadQuestions)

\* registry.execute_tool called directly ("registry") or through
\* BaseAgent.execute_tool ("agent")
StartExecute ==
    /\ reader.pc = "idle"
    /\ \E name \in ToolNames, via \in {"registry", "agent"} :
         reader' = [ReaderIdle EXCEPT !.pc = "lookup_tool", !.op = "execute",
                       !.obj = registry_global, !.name = name, !.via = via]
    /\ UNCHANGED <<objs, registry_global, disk, reloader>>

ReaderIndex == objs[reader.obj]

\* list_tools_for_agent: `if pack_name in self.skill_packs`, and the end of
\* the loop (match_tools_by_keywords then filters the candidates)
ListCheck ==
    /\ reader.pc = "check"
    /\ IF reader.i > Len(reader.packs)
       THEN reader' = [reader EXCEPT
                          !.pc = "done",
                          !.value = IF reader.op = "match"
                                    THEN FilterMatches(reader.acc, reader.question)
                                    ELSE reader.acc]
       ELSE IF reader.packs[reader.i] \in DOMAIN ReaderIndex.skill_packs
       THEN reader' = [reader EXCEPT !.pc = "fetch"]
       ELSE reader' = [reader EXCEPT !.i = @ + 1]
    /\ UNCHANGED <<objs, registry_global, disk, reloader>>

\* list_tools_for_agent: `pack = self.skill_packs[pack_name]` and the
\* extension of available_tools
ListFetch ==
    /\ reader.pc = "fetch"
    /\ IF reader.packs[reader.i] \notin DOMAIN ReaderIndex.skill_packs
       THEN reader' = [reader EXCEPT !.pc = "done", !.raised = "KeyError"]
       ELSE reader' = [reader EXCEPT
                          !.pc = "check", !.i = @ + 1,
                          !.acc = @ \o PackTools(ReaderIndex.skill_packs[reader.packs[reader.i]])]
    /\ UNCHANGED <<objs, registry_global, disk, reloader>>

\* match_tools_by_keywords without skill packs: all of self.tools
MatchAllTools ==
    /\ reader.pc = "all_tools"
    /\ reader' = [reader EXCEPT
                     !.pc = "done", !.acc = ReaderIndex.tools,
                     !.value = FilterMatches(ReaderIndex.tools, reader.question)]
    /\ UNCHANGED <<objs, registry_global, disk, reloader>>

\* BaseAgent.execute_tool: `except Exception` around registry.execute_tool
AgentCatchesValueErrorOnly(outcome) ==
    IF outcome = "ValueError"
    THEN [raised |-> NoKey, value |-> <<"error">>]
    ELSE IF outcome = "returned"
    THEN [raised |-> NoKey, value |-> <<"result">>]
    ELSE [raised |-> outcome, value |-> <<>>]

AgentExecuteTool(outcome) ==
    IF outcome = "returned"
    THEN [raised |-> NoKey, value |-> <<"result">>]
    ELSE [raised |-> NoKey, value |-> <<"error">>]

\* SkillRegistry.execute_tool as its caller sees it
RegistryExecuteTool(outcome) ==
    IF outcome = "returned"
    THEN [raised |-> NoKey, value |-> <<"result">>]
    ELSE [raised |-> outcome, value |-> <<>>]

\* execute_tool: self.tools.get(tool_name) and, from the descriptor, the
\* resolution of the entry point and the call
ExecuteTool ==
    /\ reader.pc = "lookup_tool"
    /\ LET found == DictHas(ReaderIndex.tools, reader.name)
           tool_info == IF found THEN DictGet(ReaderIndex.tools, reader.name)
                        ELSE None
           outcome == IF found THEN ExecuteOutcome(tool_info) ELSE "ValueError"
           seen == IF reader.via = "agent" THEN AgentExecuteTool(outcome)
                   ELSE RegistryExecuteTool(outcome)
       IN  reader' = [reader EXCEPT !.pc = "done", !.tool = tool_info,
                                    !.raised = seen.raised, !.value = seen.value]
    /\ UNCHANGED <<objs, registry_global, disk, reloader>>

\* the call has returned (or raised) to its caller
ReaderReturn ==
    /\ reader.pc = "done"
    /\ reader' = ReaderIdle
    /\ UNCHANGED <<objs, registry_global, disk, reloader>>

\* the process has a registry loaded from the skills directory as it was;
\* the directory may have changed since
InitRegistry ==
    /\ disk \in DiskConfigs
    /\ \E idx \in CompleteIndexes : objs = <<idx>>
    /\ registry_global = 1
    /\ reloader = ReloaderIdle(0)
    /\ reader = ReaderIdle

-----------------------------------------------------------------------------
(* One analyze call: the reasoning output, its parsing, the two phases *)

\* the text a reasoning call returns: a JSON value alone ("json"), the same
\* inside a ```json fence ("fenced"), or with prose around it ("prose"); the
\* payload is no JSON at all ("garbage"), a JSON value that is not an object
\* ("nonobject": a list, a number, a string, null), or an object
Text(form, payload) == [form |-> form, payload |-> payload]

Garbage == [kind |-> "garbage"]
NonObject == [kind |-> "nonobject"]

ValueErr == [kind |-> "ValueError"]

\* BaseAgent.parse_json_response: json.loads of the text without its
\* fences; failing that, json.loads of the span from the first "{" to the
\* last "}"; failing that, ValueError
parse_json_response(text) ==
    IF text.form \in {"json", "fenced"} /\ text.payload.kind # "garbage"
    THEN text.payload
    ELSE IF text.form = "prose" /\ text.payload.kind = "object"
    THEN text.payload
    ELSE ValueErr

\* phase-1 objects of a specialist: the action and the fields it carries
Phase1Object(action, tool_name, parameters, confidence, reasoning) ==
    [kind |-> "object", action |-> action, tool_name |-> tool_name,
     parameters |-> parameters, confidence |-> confidence,
     reasoning |-> reasoning]

\* the "parameters" value of a tool_use decision: a mapping of fresh string
\* keys ("dict"), a mapping with the key log_data or tool_name
\* ("reserved"), a value that is no mapping, null included ("nondict"), or
\* no such key (Absent: the default {})
ParameterKinds == {"dict", "reserved", "nondict", Absent}

Phase1ToolNames ==
    {"calculate_vsh", "analyze_crossplot", "find_extremes", "no_such_tool"}

Phase1Objects ==
    { Phase1Object("tool_use", n, ps, AbsentNum, Absent) :
          n \in Phase1ToolNames, ps \in ParameterKinds }
    \cup
    { Phase1Object("final_answer", Absent, Absent, 8, "given"),
      Phase1Object("escalate", Absent, Absent, AbsentNum, "given"),
      Phase1Object(Absent, Absent, Absent, AbsentNum, Absent) }

\* phase-2 objects: the final fields, or an object without them
Phase2Object(confidence, reasoning) ==
    [kind |-> "object", confidence |-> confidence, reasoning |-> reasoning]

Phase2Objects == { Phase2Object(8, "given"), Phase2Object(AbsentNum, Absent) }

Forms == {"json", "fenced", "prose"}

Phase1Texts ==
    { Text(f, pl) : f \in Forms, pl \in Phase1Objects \cup {NonObject} }
    \cup { Text("json", Garbage) }

Phase2Texts ==
    { Text(f, pl) : f \in {"json", "prose"}, pl \in Phase2Objects \cup {NonObject} }
    \cup { Text("json", Garbage) }

ArbTexts ==
    { Text(f, pl) : f \in {"json", "prose"},
                    pl \in {r \in ArbResponses : r.kind = "object"} \cup {NonObject} }
    \cup { Text("json", Garbage) }

CallIdleValue ==
    [pc |-> "idle", agent |-> "none", text1 |-> None, text2 |-> None,
     tool_name |-> NoKey, tool_value |-> <<>>, n_think |-> 0, n_exec |-> 0,
     outcome |-> NoKey, raised |-> NoKey, result |-> None]

\* the caller invokes analyze of the lithology specialist or the arbitrator
StartAnalyze ==
    /\ call.pc = "idle"
    /\ \E a \in {"LithologyExpert", "ElectricalExpert", ArbitratorKey} :
         call' = [CallIdleValue EXCEPT !.pc = "phase1", !.agent = a]
    /\ UNCHANGED <<wfVars, regVars>>

\* the results LithologyAgent.analyze builds
FormatError(stage) ==
    [lithology |-> "Unknown", confidence |-> 0, reasoning |-> stage,
     tool_used |-> Absent]

Escalation(decision) ==
    [lithology |-> "Escalation Required", confidence |-> 0,
     reasoning |-> Get(decision.reasoning, "Escalation requested"),
     tool_used |-> Absent]

DirectAnswer(decision) ==
    [lithology |-> "given", confidence |-> GetNum(decision.confidence, 5),
     reasoning |-> Get(decision.reasoning, "No reasoning provided."),
     tool_used |-> Absent]

Synthesis(result, tool_name) ==
    [lithology |-> "given", confidence |-> result.confidence,
     reasoning |-> result.reasoning, tool_used |-> tool_name]

Returns(result) == [call EXCEPT !.pc = "done", !.result = result]

Raises(exc) == [call EXCEPT !.pc = "done", !.raised = exc]

\* LithologyAgent.analyze: the phase-1 reasoning call, parse and dispatch
LithologyPhase1 ==
    /\ call.pc = "phase1"
    /\ call.agent = "LithologyExpert"
    /\ \E text \in Phase1Texts :
         LET decision == parse_json_response(text)
             c == [call EXCEPT !.text1 = text, !.n_think = @ + 1]
         IN  call' =
               CASE decision = ValueErr ->
                        [c EXCEPT !.pc = "done", !.result = FormatError("Format Error in Stage 1")]
                 [] decision.kind = "nonobject" ->
                        [c EXCEPT !.pc = "done", !.raised = "AttributeError"]
                 [] decision.action = "escalate" ->
                        [c EXCEPT !.pc = "done", !.result = Escalation(decision)]
                 [] decision.action = "tool_use" ->
                        [c EXCEPT !.pc = "tool", !.tool_name = decision.tool_name]
                 [] OTHER ->
                        [c EXCEPT !.pc = "done", !.result = DirectAnswer(decision)]
    /\ UNCHANGED <<wfVars, regVars>>

\* LithologyAgent.analyze: self.execute_tool(tool_name, log_data=data,
\* **params) through BaseAgent.execute_tool and the shared registry
\* what the registry does with the tool name of the decision
ToolOutcome(tool_name) ==
    LET tools == objs[registry_global].tools
    IN  IF DictHas(tools, tool_name)
        THEN ExecuteOutcome(DictGet(tools, tool_name))
        ELSE "ValueError"

\* the call expression f(tool_name, log_data=data, **params): it raises
\* TypeError before f runs when params is no mapping or repeats a keyword
BindsParameters(parameters) == parameters \in {"dict", Absent}

LithologyTool ==
    /\ call.pc = "tool"
    /\ call.agent = "LithologyExpert"
    /\ IF ~BindsParameters(call.text1.payload.parameters)
       THEN call' = Raises("TypeError")
       ELSE LET outcome == ToolOutcome(call.tool_name)
            IN  call' = [call EXCEPT !.pc = "phase2", !.n_exec = @ + 1,
                            !.outcome = outcome,
                            !.tool_value = AgentExecuteTool(outcome).value]
    /\ UNCHANGED <<wfVars, regVars>>

\* LithologyAgent.analyze: the phase-2 reasoning call and its parse
LithologyPhase2 ==
    /\ call.pc = "phase2"
    /\ call.agent = "LithologyExpert"
    /\ \E text \in Phase2Texts :
         LET result == parse_json_response(text)
             c == [call EXCEPT !.text2 = text, !.n_think = @ + 1]
         IN  call' =
               CASE result = ValueErr ->
                        [c EXCEPT !.pc = "done", !.result = FormatError("Format Error in Stage 2")]
                 [] result.kind = "nonobject" ->
                        [c EXCEPT !.pc = "done", !.raised = "TypeError"]
                 [] OTHER ->
                        [c EXCEPT !.pc = "done",
                                  !.result = Synthesis(result, call.tool_name)]
    /\ UNCHANGED <<wfVars, regVars>>

\* the results ElectricalAgent.analyze builds
FluidError(note) ==
    [fluid_type |-> "Unknown", confidence |-> 0, reasoning |-> note]

FluidAnswer(decision) ==
    [fluid_type |-> "given", confidence |-> GetNum(decision.confidence, 5),
     reasoning |-> Get(decision.reasoning, "No reasoning provided.")]

\* ElectricalAgent.analyze: the phase-1 reasoning call, parse and dispatch
ElectricalPhase1 ==
    /\ call.pc = "phase1"
    /\ call.agent = "ElectricalExpert"
    /\ \E text \in Phase1Texts :
         LET decision == parse_json_response(text)
             c == [call EXCEPT !.text1 = text, !.n_think = @ + 1]
         IN  call' =
               CASE decision = ValueErr ->
                        [c EXCEPT !.pc = "done", !.result = FluidError("Format Error")]
                 [] decision.kind = "nonobject" ->
                        [c EXCEPT !.pc = "done", !.raised = "AttributeError"]
                 [] decision.action = "tool_use" ->
                        [c EXCEPT !.pc = "tool", !.tool_name = decision.tool_name]
                 [] OTHER ->
                        [c EXCEPT !.pc = "done", !.result = FluidAnswer(decision)]
    /\ UNCHANGED <<wfVars, regVars>>

\* ElectricalAgent.analyze: skill_registry.execute_skill(...) inside
\* try / except Exception; SkillRegistry has no execute_skill, so the
\* attribute lookup raises AttributeError, which the handler turns into the
\* tool output "Error: ..."
ElectricalTool ==
    /\ call.pc = "tool"
    /\ call.agent = "ElectricalExpert"
    /\ call' = [call EXCEPT !.pc = "phase2", !.n_exec = @ + 1,
                            !.outcome = "AttributeError",
                            !.tool_value = <<"error">>]
    /\ UNCHANGED <<wfVars, regVars>>

\* ElectricalAgent.analyze: the phase-2 reasoning call; the parsed value is
\* returned as it is
ElectricalPhase2 ==
    /\ call.pc = "phase2"
    /\ call.agent = "ElectricalExpert"
    /\ \E text \in Phase2Texts :
         LET result == parse_json_response(text)
             c == [call EXCEPT !.text2 = text, !.n_think = @ + 1]
         IN  call' =
               IF result = ValueErr
               THEN [c EXCEPT !.pc = "done", !.result = FluidError("Synthesis Error")]
               ELSE [c EXCEPT !.pc = "done", !.result = result]
    /\ UNCHANGED <<wfVars, regVars>>

\* ArbitratorAgent.analyze: the reasoning call, parse and normalisation
ArbitratorCall ==
    /\ call.pc = "phase1"
    /\ call.agent = ArbitratorKey
    /\ \E text \in ArbTexts :
         LET parsed == parse_json_response(text)
             resp == IF parsed = ValueErr THEN [kind |-> "unparsable"] ELSE parsed
             result == ArbitratorAnalyze(resp)
             c == [call EXCEPT !.text1 = text, !.n_think = @ + 1]
         IN  call' = IF result = Raised
                     THEN [c EXCEPT !.pc = "done", !.raised = "AttributeError"]
                     ELSE [c EXCEPT !.pc = "done", !.result = result]
    /\ UNCHANGED <<wfVars, regVars>>

\* analyze has returned (or raised) to its caller
AnalyzeReturn ==
    /\ call.pc = "done"
    /\ call' = CallIdleValue
    /\ UNCHANGED <<wfVars, regVars>>

-----------------------------------------------------------------------------
(* Specification of one workflow run *)

\* the parts of the state a specification leaves alone
RunIdle ==
    /\ pc = "none"
    /\ discussion_history = <<>>
    /\ agent_results = <<>>
    /\ router_decision = NoKey
    /\ arbitrator_output = None
    /\ final_output = None
    /\ round_count = 0
    /\ agents = FullTable
    /\ arb_visits = 0
    /\ last_visit = [node |-> "start"]
    /\ analysis_log = None
    /\ entry = "invoke"
    /\ pending = None
    /\ events = <<>>

ExtractionIdle == extraction = None /\ loader = LoaderIdle /\ response = None

WorkflowIdle ==
    /\ ExtractionIdle
    /\ RunIdle
    /\ tracer = None
    /\ snapshots = <<>>
    /\ now = 0

RegistryIdle ==
    /\ objs = <<EmptyIndex>>
    /\ registry_global = 1
    /\ disk = DiskA
    /\ reloader = ReloaderIdle(0)
    /\ reader = ReaderIdle

CallIdle == call = CallIdleValue

Init ==
    /\ InitWorkflow
    /\ RegistryIdle
    /\ CallIdle

Next ==
    \/ router_node /\ UNCHANGED <<regVars, call>>
    \/ specialist_node /\ UNCHANGED <<regVars, call>>
    \/ arbitrator_node /\ UNCHANGED <<regVars, call>>
    \/ conditional_edge /\ UNCHANGED <<regVars, call>>

Spec == Init /\ [][Next]_vars

\* invoke() runs the graph to its end: a node that can run does run
FairSpec == Spec /\ WF_vars(Next)

-----------------------------------------------------------------------------
(* Specification of one streamed run: the graph under astream and the      *)
(* event generator of analyze_stream                                        *)

StreamInit ==
    /\ InitRun("stream")
    /\ RegistryIdle
    /\ CallIdle

StreamNext ==
    \/ Next
    \/ stream_update /\ UNCHANGED <<regVars, call>>
    \/ stream_done /\ UNCHANGED <<regVars, call>>
    \/ stream_error /\ UNCHANGED <<regVars, call>>

StreamSpec == StreamInit /\ [][StreamNext]_vars

\* the response is read to its end: the graph and the generator both run
\* when they can
StreamFairSpec == StreamSpec /\ WF_vars(StreamNext)

-----------------------------------------------------------------------------
(* Specification of the tracer alone: one AnalysisLogger and any sequence   *)
(* of start_node, log and finalize calls on it, while time passes           *)

\* number of start_node calls a behaviour makes
MaxSteps == 2

\* number of log_llm_call calls a behaviour makes
MaxCalls == 2

\* number of finalize calls a behaviour makes
MaxFinalize == 2

\* latest time of a behaviour
MaxTime == 1

\* node_name and agent_key of the start_node calls of workflow.py
NodeArgs == { <<"router", NoKey>>, <<"arbitrator", ArbitratorKey>> }

TracerInit ==
    /\ RunIdle
    /\ ExtractionIdle
    /\ tracer = NewLogger(0)
    /\ snapshots = <<>>
    /\ now = 0
    /\ RegistryIdle
    /\ CallIdle

\* time.time() moves on
Tick ==
    /\ now < MaxTime
    /\ now' = now + 1
    /\ UNCHANGED <<tracer, snapshots>>

CallStartNode ==
    /\ tracer.step_counter < MaxSteps
    /\ \E a \in NodeArgs : tracer' = start_node(tracer, a[1], a[2], now)
    /\ UNCHANGED <<snapshots, now>>

CallLogLlmCall ==
    /\ tracer.total_llm_calls < MaxCalls
    /\ tracer' = log_llm_call(tracer, RunUsage)
    /\ UNCHANGED <<snapshots, now>>

CallLogConfidence ==
    /\ tracer' = log_confidence(tracer, 8)
    /\ UNCHANGED <<snapshots, now>>

CallFinalize ==
    /\ Len(snapshots) < MaxFinalize
    /\ snapshots' = Append(snapshots, FinalizeResult(tracer, now, TRUE))
    /\ tracer' = Finalized(tracer, now)
    /\ UNCHANGED now

TracerNext ==
    \/ Tick /\ UNCHANGED <<runVars, regVars, call>>
    \/ CallStartNode /\ UNCHANGED <<runVars, regVars, call>>
    \/ CallLogLlmCall /\ UNCHANGED <<runVars, regVars, call>>
    \/ CallLogConfidence /\ UNCHANGED <<runVars, regVars, call>>
    \/ CallFinalize /\ UNCHANGED <<runVars, regVars, call>>

TracerSpec == TracerInit /\ [][TracerNext]_vars

-----------------------------------------------------------------------------
(* extract_depth_range_data (api/main.py): the slice of the stored log     *)
(* data a request analyses. Depths are whole numbers of a unit larger      *)
(* than the 0.001 of the point test; a None sample is AbsentNum            *)

\* longest curve of a stored log
MaxSamples == 3

\* largest depth of a sample or of a request
MaxDepth == 3

\* context window of a point selection, in samples on each side
window_size == 10

\* the names the depth column is looked up under, in order
DepthNames == <<"DEPT", "DEPTH", "MD", "TVD">>

\* curves is a dict in insertion order: a sequence of <<name, values>>
HasCurve(curves, name) == \E i \in 1..Len(curves) : curves[i][1] = name

CurveValues(curves, name) ==
    curves[CHOOSE i \in 1..Len(curves) : curves[i][1] = name][2]

\* the depth column: the first standard name present, else the first
\* column, else None
RECURSIVE FirstDepthName(_, _)
FirstDepthName(curves, i) ==
    IF i > Len(DepthNames) THEN NoKey
    ELSE IF HasCurve(curves, DepthNames[i]) THEN DepthNames[i]
    ELSE FirstDepthName(curves, i + 1)

DepthKey(curves) ==
    IF FirstDepthName(curves, 1) # NoKey THEN FirstDepthName(curves, 1)
    ELSE IF curves # <<>> THEN curves[1][1]
    ELSE NoKey

\* a range test that leaves the two bounds out
InRangeOpen(d, start_depth, end_depth) ==
    d # AbsentNum /\ start_depth < d /\ d < end_depth

\* d is not None and start_depth <= d <= end_depth
InRange(d, start_depth, end_depth) ==
    d # AbsentNum /\ start_depth <= d /\ d <= end_depth

\* "strict range check first": the indices, in order, of the samples in range
RECURSIVE RangeIndices(_, _, _, _)
RangeIndices(depth_values, i, start_depth, end_depth) ==
    IF i > Len(depth_values) THEN <<>>
    ELSE (IF InRange(depth_values[i], start_depth, end_depth)
          THEN <<i>> ELSE <<>>)
            \o RangeIndices(depth_values, i + 1, start_depth, end_depth)

Abs(x) == IF x < 0 THEN 0 - x ELSE x

ValidPoints(depth_values) ==
    {i \in 1..Len(depth_values) : depth_values[i] # AbsentNum}

\* min(valid_points, key=lambda x: abs(x[1] - start_depth)): the first of
\* the nearest samples
NearestIdx(depth_values, start_depth) ==
    CHOOSE i \in ValidPoints(depth_values) :
        \A j \in ValidPoints(depth_values) :
            \/ Abs(depth_values[i] - start_depth) < Abs(depth_values[j] - start_depth)
            \/ /\ Abs(depth_values[i] - start_depth) = Abs(depth_values[j] - start_depth)
               /\ i <= j

RECURSIVE IndexRange(_, _)
IndexRange(a, b) == IF a > b THEN <<>> ELSE <<a>> \o IndexRange(a + 1, b)

Max(a, b) == IF a >= b THEN a ELSE b

Min(a, b) == IF a <= b THEN a ELSE b

\* the indices extract_depth_range_data slices at
SliceIndices(depth_values, start_depth, end_depth) ==
    LET strict == RangeIndices(depth_values, 1, start_depth, end_depth) IN
    IF strict # <<>> THEN strict
    ELSE IF ValidPoints(depth_values) = {} THEN <<>>
    ELSE LET nearest_idx == NearestIdx(depth_values, start_depth) IN
         IF end_depth = start_depth    \* abs(end_depth - start_depth) < 0.001
         THEN IndexRange(Max(1, nearest_idx - window_size),
                         Min(Len(depth_values), nearest_idx + window_size))
         ELSE <<nearest_idx>>

\* [values[i] for i in indices if i < len(values)]
RECURSIVE SliceAt(_, _)
SliceAt(values, indices) ==
    IF indices = <<>> THEN <<>>
    ELSE (IF Head(indices) <= Len(values)
          THEN <<values[Head(indices)]>> ELSE <<>>)
            \o SliceAt(values, Tail(indices))

RECURSIVE SliceCurves(_, _)
SliceCurves(curves, indices) ==
    IF curves = <<>> THEN <<>>
    ELSE <<<<Head(curves)[1], SliceAt(Head(curves)[2], indices)>>>>
            \o SliceCurves(Tail(curves), indices)

\* the point branch is taken: no sample in range, a sample to be nearest to,
\* and the two depths of the request less than 0.001 apart
IsPointSelection(depth_values, start_depth, end_depth) ==
    /\ RangeIndices(depth_values, 1, start_depth, end_depth) = <<>>
    /\ ValidPoints(depth_values) # {}
    /\ end_depth = start_depth

\* a point branch whose log line never fails
WindowLogNeverRaises(depth_values, start_depth, end_depth) == FALSE

\* the log line of the point branch formats depth_values[start_i] and
\* depth_values[end_i-1] with :.2f, a TypeError when either is None
WindowLogRaises(depth_values, start_depth, end_depth) ==
    /\ IsPointSelection(depth_values, start_depth, end_depth)
    /\ LET w == SliceIndices(depth_values, start_depth, end_depth) IN
          \/ depth_values[w[1]] = AbsentNum
          \/ depth_values[w[Len(w)]] = AbsentNum

\* the value extract_depth_range_data returns, or the exception it raises
ExtractResult(curves, start_depth, end_depth) ==
    IF DepthKey(curves) = NoKey
    THEN [kind |-> "log_data", curves |-> curves]
    ELSE LET depth_values == CurveValues(curves, DepthKey(curves))
             indices == SliceIndices(depth_values, start_depth, end_depth)
         IN  IF WindowLogRaises(depth_values, start_depth, end_depth)
             THEN [kind |-> "TypeError", curves |-> <<>>]
             ELSE IF indices = <<>>
             THEN [kind |-> "empty", curves |-> <<>>]
             ELSE [kind |-> "sliced", curves |-> SliceCurves(curves, indices)]

\* the depth columns of the stored logs: samples 1..MaxDepth or None
DepthColumns ==
    UNION { [1..n -> (1..MaxDepth) \cup {AbsentNum}] : n \in 0..MaxSamples }

\* a measured curve whose sample at index i is 10 + i
RECURSIVE Measured(_)
Measured(n) == IF n = 0 THEN <<>> ELSE Append(Measured(n - 1), 10 + n)

\* the stored logs (LogDataParser builds every column of a log from one
\* DataFrame, so the columns of a log have one length): a measured curve
\* and a depth column, under a standard name or as the first column
StoredCurves ==
    { <<>> }
    \cup { << <<dk, SliceAt(d, IndexRange(1, Len(d)))>>,
              <<"GR", Measured(Len(d))>> >> :
              dk \in {"DEPT", "X"}, d \in DepthColumns }
    \cup { << <<"GR", Measured(Len(d))>>,
              <<"MD", SliceAt(d, IndexRange(1, Len(d)))>> >> :
              d \in DepthColumns }

ExtractInit ==
    /\ RunIdle
    /\ extraction \in
          { [pc |-> "request", curves |-> c, start_depth |-> a, end_depth |-> b] :
              c \in StoredCurves, a \in 0..(MaxDepth + 1), b \in 0..(MaxDepth + 1) }
    /\ loader = LoaderIdle /\ response = None
    /\ tracer = None
    /\ snapshots = <<>>
    /\ now = 0
    /\ RegistryIdle
    /\ CallIdle

extract_depth_range_data ==
    /\ extraction # None
    /\ extraction.pc = "request"
    /\ extraction' =
          [pc |-> "returned", curves |-> extraction.curves,
           start_depth |-> extraction.start_depth,
           end_depth |-> extraction.end_depth,
           result |-> ExtractResult(extraction.curves, extraction.start_depth,
                                    extraction.end_depth)]
    /\ UNCHANGED <<pc, discussion_history, agent_results, router_decision,
                   arbitrator_output, final_output, round_count, agents,
                   arb_visits, last_visit, analysis_log, entry, pending,
                   events, loader, response, trVars, regVars, call>>

ExtractNext == extract_depth_range_data

ExtractSpec == ExtractInit /\ [][ExtractNext]_vars

-----------------------------------------------------------------------------
(* What the entry points report of a run: format_workflow_result           *)
(* (POST /api/analyze) and the events of event_generator (POST             *)
(* /api/analyze/stream). History lines are character sequences here, as    *)
(* both parse them by their characters                                     *)

FinalWord == <<"F", "I", "N", "A", "L">>

ArbitratorName == <<"A", "r", "b", "i", "t", "r", "a", "t", "o", "r">>

\* the status, reasoning and question texts of the arbitrator's results
StatusFinal == FinalWord
StatusDiscussion == <<"D", "I", "S", "C", "U", "S", "S", "I", "O", "N">>
StatusError == <<"E", "R", "R", "O", "R">>
ReasonPlain == <<"o", "k">>
ReasonNotYet == <<"n", "o", "t", " ", "F", "I", "N", "A", "L", " ", "y", "e", "t">>
QuestionPlain == <<"w", "h", "y", "?">>
QuestionFinal == <<"F", "I", "N", "A", "L", " ", "a", "n", "s", "w", "e", "r", "?">>
NoText == <<>>

ArbText(status, reasoning, next_agent, question) ==
    [status |-> status, reasoning |-> reasoning, next_agent |-> next_agent,
     question_for_agent |-> question]

\* results of ArbitratorAgent.analyze: a final decision, a dispatch with a
\* question, a dispatch that asks for the FINAL answer, a discussion round
\* whose reasoning speaks of the final decision to come, and the dict of a
\* parse error
ArbTextResults ==
    { ArbText(StatusFinal, ReasonPlain, NoText, NoText),
      ArbText(StatusDiscussion, ReasonPlain, <<"L", "i", "t", "h", "o", "l", "o", "g", "y", "E", "x", "p", "e", "r", "t">>, QuestionPlain),
      ArbText(StatusDiscussion, ReasonPlain, <<"L", "i", "t", "h", "o", "l", "o", "g", "y", "E", "x", "p", "e", "r", "t">>, QuestionFinal),
      ArbText(StatusDiscussion, ReasonNotYet, NoText, NoText),
      ArbText(StatusError, ReasonPlain, NoText, NoText) }

\* msg = f"Arbitrator: Status={status}. Decision={decision} (Conf:
\* {confidence}). {reasoning}", then "\n-> Dispatching to: {next_agent}" and
\* " with question: {question}" (the decision and the confidence left out)
ArbitratorText(result) ==
    ArbitratorName \o <<":", " ", "S", "t", "a", "t", "u", "s", "=">> \o result.status
        \o <<".", " ">> \o result.reasoning
        \o (IF result.next_agent # NoText
            THEN <<"-", ">", " ", "D", "i", "s", "p", "a", "t", "c", "h", "i", "n", "g", " ", "t", "o", ":", " ">> \o result.next_agent
                    \o (IF result.question_for_agent # NoText
                        THEN <<" ", "w", "i", "t", "h", " ", "q", "u", "e", "s", "t", "i", "o", "n", ":", " ">>
                                \o result.question_for_agent
                        ELSE <<>>)
            ELSE <<>>)

\* f"{agent_key}: Conf={confidence}. {reasoning}" of a specialist whose
\* reasoning speaks of a FINAL answer
SpecialistText ==
    <<"L", "i", "t", "h", "o", "l", "o", "g", "y", "E", "x", "p", "e", "r", "t", ":", " ", "C", "o", "n", "f", "=", "8", ".", " ", "n", "o", " ", "F", "I", "N", "A", "L", " ", "a", "n", "s", "w", "e", "r">>

UserNoteText == <<"U", "s", "e", "r", " ", "N", "o", "t", "e", ":", " ", "V", "s", "h">>

\* where a history line comes from
Origin(node, status) == [node |-> node, status |-> status]

\* the state a run ends with: the history, where each line comes from, and
\* final_output; visits are the results of the arbitrator visits in order
RECURSIVE RunLines(_)
RunLines(visits) ==
    IF visits = <<>> THEN <<>>
    ELSE <<SpecialistText, ArbitratorText(Head(visits))>> \o RunLines(Tail(visits))

RECURSIVE RunOrigins(_)
RunOrigins(visits) ==
    IF visits = <<>> THEN <<>>
    ELSE <<Origin("specialist", NoText), Origin("arbitrator", Head(visits).status)>>
            \o RunOrigins(Tail(visits))

RunResult(visits) ==
    [discussion_history |-> <<UserNoteText>> \o RunLines(visits),
     origin |-> <<Origin("user", NoText)>> \o RunOrigins(visits),
     final_output |-> IF visits[Len(visits)].status = StatusFinal
                      THEN visits[Len(visits)] ELSE None]

\* the runs, by should_continue: every visit before the last one dispatched
\* without FINAL, and the last one has status FINAL, or names no next agent,
\* or is the visit that reaches the round limit
VisitSeqs ==
    { v \in UNION { [1..n -> ArbTextResults] : n \in 1..MAX_ROUNDS } :
        /\ \A i \in 1..(Len(v) - 1) :
              v[i].status # StatusFinal /\ v[i].next_agent # NoText
        /\ \/ v[Len(v)].status = StatusFinal
           \/ v[Len(v)].next_agent = NoText
           \/ Len(v) = MAX_ROUNDS }

RECURSIVE AsSeq(_, _)
AsSeq(f, i) == IF i > Len(f) THEN <<>> ELSE <<f[i]>> \o AsSeq(f, i + 1)

RunResults == { RunResult(AsSeq(v, 1)) : v \in VisitSeqs }

HasColon(msg) == \E i \in 1..Len(msg) : msg[i] = ":"

\* msg.split(':', 1)[0].strip()
AgentNameOf(msg) ==
    LET at == CHOOSE i \in 1..Len(msg) :
                  msg[i] = ":" /\ \A j \in 1..(i - 1) : msg[j] # ":"
    IN  Strip(SubSeq(msg, 1, at - 1))

\* a flag taken from the status of the visit that wrote the line
IsFinalByStatus(msg, origin) ==
    origin.node = "arbitrator" /\ origin.status = StatusFinal

\* "is_final": agent_name == "Arbitrator" and "FINAL" in msg
IsFinal(msg, origin) ==
    AgentNameOf(msg) = ArbitratorName /\ Contains(msg, FinalWord)

\* the message format_workflow_result builds of a history line
FormatMessage(msg, origin, i) ==
    IF HasColon(msg)
    THEN [index |-> i, agent |-> AgentNameOf(msg), is_final |-> IsFinal(msg, origin)]
    ELSE [index |-> i, agent |-> <<"S", "y", "s", "t", "e", "m">>, is_final |-> FALSE]

RECURSIVE FormatMessages(_, _, _)
FormatMessages(history, origin, i) ==
    IF i > Len(history) THEN <<>>
    ELSE <<FormatMessage(history[i], origin[i], i)>>
            \o FormatMessages(history, origin, i + 1)

\* the agent_message events of event_generator: a line without ":" yields
\* no event
RECURSIVE StreamMessages(_, _, _)
StreamMessages(history, origin, i) ==
    IF i > Len(history) THEN <<>>
    ELSE (IF HasColon(history[i])
          THEN <<FormatMessage(history[i], origin[i], i)>> ELSE <<>>)
            \o StreamMessages(history, origin, i + 1)

FormatInit ==
    /\ RunIdle
    /\ extraction = None
    /\ loader = LoaderIdle
    /\ tracer = None
    /\ snapshots = <<>>
    /\ now = 0
    /\ RegistryIdle
    /\ CallIdle
    /\ response \in { [pc |-> "result", entry |-> how, result |-> r] :
                          how \in {"invoke", "stream"}, r \in RunResults }

\* format_workflow_result(result): the messages, and final_decision when
\* final_output is truthy
format_workflow_result ==
    /\ response # None
    /\ response.pc = "result"
    /\ response.entry = "invoke"
    /\ response' =
          [pc |-> "returned", entry |-> "invoke", result |-> response.result,
           messages |-> FormatMessages(response.result.discussion_history,
                                       response.result.origin, 1),
           final_decision |-> response.result.final_output]

\* event_generator over the updates of the run: the agent_message events of
\* the lines the nodes appended (the request's own line is in no update) and
\* the final_decision event of an update whose final_output has status FINAL
event_generator ==
    /\ response # None
    /\ response.pc = "result"
    /\ response.entry = "stream"
    /\ response' =
          [pc |-> "returned", entry |-> "stream", result |-> response.result,
           messages |-> StreamMessages(response.result.discussion_history,
                                       response.result.origin, 2),
           final_decision |->
               IF /\ response.result.final_output # None
                  /\ response.result.final_output.status = StatusFinal
               THEN response.result.final_output ELSE None]

FormatVars ==
    <<pc, discussion_history, agent_results, router_decision,
      arbitrator_output, final_output, round_count, agents, arb_visits,
      last_visit, analysis_log, entry, pending, events, extraction, loader,
      trVars, regVars, call>>

FormatNext ==
    \/ format_workflow_result /\ UNCHANGED FormatVars
    \/ event_generator /\ UNCHANGED FormatVars

FormatSpec == FormatInit /\ [][FormatNext]_vars

-----------------------------------------------------------------------------
(* Specification of the router alone: router_node on histories of user     *)
(* notes, follow-ups and agent lines                                        *)

\* longest history the router is given
MaxHistory == 2

\* the history line f"User Follow-up: {question}"
FollowUp(q) == [tag |-> "User Follow-up:", text |-> <<" ">> \o q]

\* a history line written by a node for an agent
AgentLine(text) == [tag |-> "agent", text |-> text]

HistoryEntries ==
    { UserNote(q) : q \in Questions \cup {<<"V", "s", "h", "p", "o", "r">>} }
    \cup { FollowUp(q) : q \in {<<"P", "o", "r">>, <<" ">>} }
    \cup { AgentLine(<<"a", ":", "p", "o", "r">>), AgentLine(<<"a", ":">>) }

RouterHistories ==
    UNION { [1..n -> HistoryEntries] : n \in 0..MaxHistory }

RouterInit ==
    /\ pc = "router"
    /\ discussion_history \in RouterHistories
    /\ agent_results = <<>>
    /\ router_decision = NoKey
    /\ arbitrator_output = None
    /\ final_output = None
    /\ round_count = 0
    /\ agents \in AgentTables
    /\ arb_visits = 0
    /\ last_visit = [node |-> "start"]
    /\ analysis_log = None
    /\ entry = "invoke"
    /\ pending = None
    /\ events = <<>>
    /\ extraction = None
    /\ loader = LoaderIdle /\ response = None
    /\ now = 0
    /\ tracer = NewLogger(now)
    /\ snapshots = <<>>
    /\ RegistryIdle
    /\ CallIdle

\* router_node called once more on the state it returned
router_node_again ==
    /\ pc = "specialist"
    /\ last_visit.node = "router"
    /\ router_decision' = RouterTarget(discussion_history)
    /\ last_visit' = [node |-> "router_again", previous |-> router_decision]
    /\ tracer' = IF tracer = None THEN None
                 ELSE log_router_decision(
                          start_node(tracer, "router", NoKey, now),
                          RouterTarget(discussion_history))
    /\ UNCHANGED <<pc, discussion_history, agent_results, arbitrator_output,
                   final_output, round_count, agents, arb_visits,
                   analysis_log, entry, pending, events, extraction, loader, response,
                   snapshots, now>>

RouterNext ==
    \/ router_node /\ UNCHANGED <<regVars, call>>
    \/ router_node_again /\ UNCHANGED <<regVars, call>>

RouterSpec == RouterInit /\ [][RouterNext]_vars

-----------------------------------------------------------------------------
(* Specification of the shared registry: a reloading thread and a reading   *)
(* thread                                                                    *)

RegistryInit ==
    /\ InitRegistry
    /\ WorkflowIdle
    /\ CallIdle

RegistryNext ==
    \/ StartReloadInPlace /\ UNCHANGED <<wfVars, call>>
    \/ StartReloadSwap /\ UNCHANGED <<wfVars, call>>
    \/ ClearPacks /\ UNCHANGED <<wfVars, call>>
    \/ ClearTools /\ UNCHANGED <<wfVars, call>>
    \/ ScanDir /\ UNCHANGED <<wfVars, call>>
    \/ RegisterSetPack /\ UNCHANGED <<wfVars, call>>
    \/ RegisterSetDirectory /\ UNCHANGED <<wfVars, call>>
    \/ RegisterInsert /\ UNCHANGED <<wfVars, call>>
    \/ FinishReload /\ UNCHANGED <<wfVars, call>>
    \/ StartList /\ UNCHANGED <<wfVars, call>>
    \/ StartMatch /\ UNCHANGED <<wfVars, call>>
    \/ StartExecute /\ UNCHANGED <<wfVars, call>>
    \/ ListCheck /\ UNCHANGED <<wfVars, call>>
    \/ ListFetch /\ UNCHANGED <<wfVars, call>>
    \/ MatchAllTools /\ UNCHANGED <<wfVars, call>>
    \/ ExecuteTool /\ UNCHANGED <<wfVars, call>>
    \/ ReaderReturn /\ UNCHANGED <<wfVars, call>>

RegistrySpec == RegistryInit /\ [][RegistryNext]_vars

-----------------------------------------------------------------------------
(* Specification of analyze calls, on a loaded registry *)

AnalyzeInit ==
    /\ WorkflowIdle
    /\ disk \in DiskConfigs
    /\ \E order \in ListOrders : objs = <<LoadDirs(EmptyIndex, disk, order)>>
    /\ registry_global = 1
    /\ reloader = ReloaderIdle(0)
    /\ reader = ReaderIdle
    /\ CallIdle

AnalyzeNext ==
    \/ StartAnalyze
    \/ LithologyPhase1
    \/ LithologyTool
    \/ LithologyPhase2
    \/ ElectricalPhase1
    \/ ElectricalTool
    \/ ElectricalPhase2
    \/ ArbitratorCall
    \/ AnalyzeReturn

AnalyzeSpec == AnalyzeInit /\ [][AnalyzeNext]_vars

-----------------------------------------------------------------------------
(* Specification of the readers alone: list_tools_for_agent and            *)
(* match_tools_by_keywords on an index that no reload touches              *)

\* lists of skill-pack ids: known, unknown, mixed, one, none
QueryPackLists ==
    PackLists \cup { <<>>, <<"unknown">>, <<"statistics">>, <<"lithology">> }

\* questions: a keyword in another case, inside a longer text, and absent
Queries ==
    { <<"v", "S", "H">>, <<"c", "V", "s", "h", "?">>,
      <<"P", "O", "R", "o">>, <<"v", "s">>, <<>> }

QueryInit ==
    /\ InitRegistry
    /\ objs = <<LoadDirs(EmptyIndex, disk, <<LithDir, StatDir>>)>>
    /\ WorkflowIdle
    /\ CallIdle

QueryNext ==
    \/ StartListWith(QueryPackLists) /\ UNCHANGED <<wfVars, call>>
    \/ StartMatchWith(QueryPackLists, Queries) /\ UNCHANGED <<wfVars, call>>
    \/ ListCheck /\ UNCHANGED <<wfVars, call>>
    \/ ListFetch /\ UNCHANGED <<wfVars, call>>
    \/ MatchAllTools /\ UNCHANGED <<wfVars, call>>
    \/ ReaderReturn /\ UNCHANGED <<wfVars, call>>

QuerySpec == QueryInit /\ [][QueryNext]_vars

-----------------------------------------------------------------------------
(* Specification of list and execute calls on indexes built from skill     *)
(* directories that share a capability name or a pack id                   *)

\* the capability calculate_vsh as the statistics directory declares it
StatVsh == ToolDef("calculate_vsh", {<<"s", "h">>}, "raises")

\* two directories whose packs declare the same capability name
DiskSameName ==
    [d \in Dirs |->
        IF d = LithDir THEN YamlManifest("lithology", <<CalcVsh, Crossplot>>)
        ELSE YamlManifest("statistics", <<StatVsh, FindExtremes>>)]

\* two directories whose manifests declare the same pack id
DiskSamePack ==
    [d \in Dirs |->
        IF d = LithDir THEN YamlManifest("lithology", <<CalcVsh>>)
        ELSE YamlManifest("lithology", <<FindExtremes>>)]

SharedDisks == {DiskA, DiskSameName, DiskSamePack}

SharedInit ==
    /\ disk \in SharedDisks
    /\ \E order \in ListOrders : objs = <<LoadDirs(EmptyIndex, disk, order)>>
    /\ registry_global = 1
    /\ reloader = ReloaderIdle(1)
    /\ reader = ReaderIdle
    /\ WorkflowIdle
    /\ CallIdle

SharedNext ==
    \/ StartListWith(QueryPackLists) /\ UNCHANGED <<wfVars, call>>
    \/ StartExecute /\ UNCHANGED <<wfVars, call>>
    \/ ListCheck /\ UNCHANGED <<wfVars, call>>
    \/ ListFetch /\ UNCHANGED <<wfVars, call>>
    \/ ExecuteTool /\ UNCHANGED <<wfVars, call>>
    \/ ReaderReturn /\ UNCHANGED <<wfVars, call>>

SharedSpec == SharedInit /\ [][SharedNext]_vars

-----------------------------------------------------------------------------
(* Specification of the agent table under reload_registry *)

\* the process has not loaded the table yet, or has loaded it from the
\* registry file as it was
LoaderInit ==
    /\ loader \in
          { LoaderIdle,
            [LoaderIdle EXCEPT !.registry_cache = Registry(RegistryFileOld),
                               !.agents_cache = TableOf(RegistryFileOld)] }
    /\ RunIdle
    /\ extraction = None
    /\ response = None
    /\ tracer = None
    /\ snapshots = <<>>
    /\ now = 0
    /\ RegistryIdle
    /\ CallIdle

LoaderVars ==
    <<pc, discussion_history, agent_results, router_decision,
      arbitrator_output, final_output, round_count, agents, arb_visits,
      last_visit, analysis_log, entry, pending, events, extraction,
      response, trVars, regVars, call>>

LoaderNext ==
    \/ StartReloadRegistry /\ UNCHANGED LoaderVars
    \/ ClearRegistryCache /\ UNCHANGED LoaderVars
    \/ ClearAgentsCache /\ UNCHANGED LoaderVars
    \/ StartRead /\ UNCHANGED LoaderVars
    \/ \E th \in Threads : CheckAgentsCache(th) /\ UNCHANGED LoaderVars
    \/ \E th \in Threads : ReturnAgentsCache(th) /\ UNCHANGED LoaderVars
    \/ \E th \in Threads : CheckRegistryCache(th) /\ UNCHANGED LoaderVars
    \/ \E th \in Threads : LoadRegistryFile(th) /\ UNCHANGED LoaderVars
    \/ \E th \in Threads : LogRegistryLoaded(th) /\ UNCHANGED LoaderVars
    \/ \E th \in Threads : ReturnRegistry(th) /\ UNCHANGED LoaderVars
    \/ \E th \in Threads : BuildAgent(th) /\ UNCHANGED LoaderVars
    \/ \E th \in Threads : PublishAgents(th) /\ UNCHANGED LoaderVars
    \/ \E th \in Threads : ThreadReturn(th) /\ UNCHANGED LoaderVars

LoaderSpec == LoaderInit /\ [][LoaderNext]_vars

-----------------------------------------------------------------------------
(* Properties of a workflow run *)

RunOver == pc \in {"END", "raised"}

\* the arbitrator visit that ran last returned a result built from a parsed
\* object
LastArbReturnedObject ==
    /\ last_visit.node = "arbitrator"
    /\ last_visit.resolved
    /\ last_visit.response.kind = "object"

\* C1: a run is over after at most MAX_ROUNDS + 1 arbitrator visits: the
\* number of visits never exceeds MAX_ROUNDS + 1 and every run reaches its
\* end (the END state, or the exception of an analyze call leaving invoke)
C1_Termination ==
    /\ [](arb_visits <= MAX_ROUNDS + 1)
    /\ <>RunOver

\* C1 witness: a run ended by the round limit while the arbitrator still
\* dispatched to a registered specialist
C1_Witness ==
    /\ pc = "END"
    /\ arb_visits = MAX_ROUNDS
    /\ arbitrator_output # None
    /\ arbitrator_output.next_agent \in get_specialist_agents
    /\ Get(arbitrator_output.status, "UNKNOWN") # "FINAL"

\* the status and the next_agent the edge after an arbitrator visit reads
EdgeStatus ==
    IF arbitrator_output = None THEN "UNKNOWN"
    ELSE Get(arbitrator_output.status, "UNKNOWN")

EdgeNextPresent ==
    arbitrator_output # None /\ arbitrator_output.next_agent # NoKey

\* C2: after an arbitrator visit the run ends if the status is FINAL (also
\* when a next_agent is set); otherwise it ends if round >= MAX_ROUNDS;
\* otherwise it loops to the specialist if a next_agent is present;
\* otherwise it ends
C2_OrderedRule ==
    [][pc = "should_continue" =>
         /\ (EdgeStatus = "FINAL" => pc' = "END")
         /\ (EdgeStatus # "FINAL" /\ round_count >= MAX_ROUNDS => pc' = "END")
         /\ (EdgeStatus # "FINAL" /\ round_count < MAX_ROUNDS /\ EdgeNextPresent
                => pc' = "specialist")
         /\ (EdgeStatus # "FINAL" /\ round_count < MAX_ROUNDS /\ ~EdgeNextPresent
                => pc' = "END")]_vars

\* C2 witness: a run ended on FINAL although the arbitrator also named a
\* next agent, before the round limit
C2_Witness ==
    /\ pc = "END"
    /\ EdgeStatus = "FINAL"
    /\ EdgeNextPresent
    /\ round_count < MAX_ROUNDS

\* a step that is an arbitrator visit returning to the graph
ArbVisitStep == pc = "arbitrator" /\ pc' = "should_continue"

\* C3 as claimed: every arbitrator visit increases round by exactly 1, no
\* other node changes round, and round never exceeds MAX_ROUNDS
C3_Original ==
    [][/\ (ArbVisitStep => round_count' = round_count + 1)
       /\ (~ArbVisitStep => round_count' = round_count)
       /\ round_count' <= MAX_ROUNDS]_vars

\* C3 amended: every arbitrator visit in which the arbitrator implementation
\* is resolved and returns increases round by exactly 1; a visit in which it
\* cannot be resolved leaves round unchanged; no other node changes round;
\* round never exceeds MAX_ROUNDS
C3_RoundCount ==
    [][/\ (ArbVisitStep /\ HasInstance(ArbitratorKey)
             => round_count' = round_count + 1)
       /\ (ArbVisitStep /\ ~HasInstance(ArbitratorKey)
             => round_count' = round_count)
       /\ (~ArbVisitStep => round_count' = round_count)
       /\ round_count' <= MAX_ROUNDS]_vars

\* C3 witness: round has reached MAX_ROUNDS after as many arbitrator visits
C3_Witness ==
    /\ round_count = MAX_ROUNDS
    /\ arb_visits = MAX_ROUNDS
    /\ pc = "should_continue"

IsPrefix(s, t) == Len(s) <= Len(t) /\ SubSeq(t, 1, Len(s)) = s

\* C4: at every node visit the history before the visit is a prefix of the
\* history after it
C4_AppendOnly ==
    [][IsPrefix(discussion_history, discussion_history')]_vars

\* C4 witness: an arbitrator visit has appended its line after a user
\* note and a specialist line
C4_Witness ==
    /\ Len(discussion_history) >= 3
    /\ discussion_history[1].tag = "User Note:"
    /\ discussion_history[2].tag = "specialist"
    /\ discussion_history[3].tag = "Arbitrator"

\* the arbitrator's reasoning returned a non-FINAL status with a next_agent
\* that is no registered non-arbitrator agent key
InvalidDispatchResponse(resp) ==
    /\ resp.kind = "object"
    /\ resp.status # "FINAL"
    /\ resp.next_agent # NoKey
    /\ resp.next_agent \notin {k \in DOMAIN agents : ~agents[k].is_arbitrator}

\* C5: when the arbitrator's reasoning returns a non-FINAL status with an
\* invalid next_agent, the visit returns without raising with next_agent
\* nulled, the run then ends without a final output, and a specialist visit
\* made on a directive always goes to a registered non-arbitrator key
C5_InvalidNextAgent ==
    [][/\ (/\ pc = "arbitrator"
            /\ last_visit'.node = "arbitrator"
            /\ last_visit'.resolved
            /\ InvalidDispatchResponse(last_visit'.response)
            => /\ pc' = "should_continue"
               /\ arbitrator_output'.next_agent = NoKey)
       /\ (/\ pc = "should_continue"
            /\ LastArbReturnedObject
            /\ InvalidDispatchResponse(last_visit.response)
            => pc' = "END" /\ final_output' = None)
       /\ (/\ pc = "specialist"
            /\ last_visit'.via = "directive"
            => /\ last_visit'.agent_key \in DOMAIN agents
               /\ ~agents[last_visit'.agent_key].is_arbitrator)]_vars

\* C5 witness: a run ended before the round limit after the arbitrator
\* named "UnknownAgent"
C5_Witness ==
    /\ pc = "END"
    /\ LastArbReturnedObject
    /\ last_visit.response.next_agent = "UnknownAgent"
    /\ arbitrator_output.next_agent = NoKey
    /\ round_count < MAX_ROUNDS

\* C6: in the terminal state final_output carries status FINAL exactly when
\* the last arbitrator visit returned status FINAL, and it is null when the
\* run was ended (forced) after a visit that returned another status
C6_ForcedDistinguishable ==
    pc = "END" =>
        /\ (final_output # None /\ final_output.status = "FINAL")
              <=> (LastArbReturnedObject /\ last_visit.response.status = "FINAL")
        /\ (/\ last_visit.node = "arbitrator"
            /\ last_visit.resolved
            /\ ~(last_visit.response.kind = "object"
                   /\ last_visit.response.status = "FINAL")
            => final_output = None)

\* C6 witness: round reached MAX_ROUNDS while the arbitrator still asked
\* for a registered specialist, and the run ended with no final output
C6_Witness ==
    /\ pc = "END"
    /\ round_count = MAX_ROUNDS
    /\ LastArbReturnedObject
    /\ last_visit.response.status = "NEED_MORE_INFO"
    /\ last_visit.response.next_agent \in get_specialist_agents
    /\ final_output = None

-----------------------------------------------------------------------------
(* Properties of the shared registry *)

SeqToSet(q) == {q[i] : i \in DOMAIN q}

\* what a list or match call returns when it runs on the index idx alone
CallOn(idx) ==
    LET candidates == IF reader.op = "match" /\ reader.packs = <<>>
                      THEN idx.tools ELSE ListFor(idx, reader.packs)
    IN  IF reader.op = "match"
        THEN FilterMatches(candidates, reader.question) ELSE candidates

\* the descriptor an execute call uses when it runs on the index idx alone
LookupOn(idx) ==
    IF DictHas(idx.tools, reader.name) THEN DictGet(idx.tools, reader.name)
    ELSE None

\* C7 as claimed: a listFor, match or execute call returns what it returns
\* on one complete index (the index before or after a reload), whatever
\* reload runs beside it
C7_ReloadAtomic ==
    reader.pc = "done" =>
        \E idx \in CompleteIndexes :
            IF reader.op = "execute"
            THEN reader.tool = LookupOn(idx)
            ELSE reader.raised = NoKey /\ reader.value = CallOn(idx)

\* the descriptors a call has collected, returned or used
ObservedTools ==
    SeqToSet(reader.acc)
    \cup (IF reader.op \in {"list", "match"} THEN SeqToSet(reader.value) ELSE {})
    \cup (IF reader.tool # None THEN {reader.tool} ELSE {})

\* C8: every descriptor a match, list or execute call collects, returns or
\* uses, also beside a reload, has a directory only of the skill pack it
\* declares: the manifest in that directory declares that pack
C8_DirectoryOfDeclaredPack ==
    \A t \in ObservedTools :
        t.directory # Absent => t.skill_pack \in DirPacks(t.directory)

\* C8 witness: a call racing an in-place reload of the object it reads has
\* returned a registered descriptor next to one that is being registered
C8_Witness ==
    /\ reader.pc = "done"
    /\ reader.op \in {"list", "match"}
    /\ reloader.mode = "inplace"
    /\ reloader.pc \in {"reg_pack", "reg_dir", "reg_insert"}
    /\ reader.obj = reloader.target
    /\ \E t \in SeqToSet(reader.value) : t.directory # Absent
    /\ \E t \in SeqToSet(reader.acc) : t.directory = Absent

-----------------------------------------------------------------------------
(* Properties of analyze *)

\* the output of a phase was not parsed into the structure the phase expects
Phase1Malformed ==
    /\ call.text1 # None
    /\ call.text1.payload.kind # "object"

Phase2Malformed ==
    /\ call.text2 # None
    /\ call.text2.payload.kind # "object"

\* C10 as claimed: when the output of phase 1 or phase 2 cannot be parsed
\* into the expected structure, analyze returns a result with confidence 0
\* and a reasoning, and raises nothing
C10_MalformedOutputRecovered ==
    call.pc = "done" /\ (Phase1Malformed \/ Phase2Malformed) =>
        /\ call.raised = NoKey
        /\ call.result # None
        /\ "confidence" \in DOMAIN call.result
        /\ call.result.confidence = 0
        /\ call.result.reasoning # Absent

\* phase 1 decided tool_use and the capability it names cannot succeed: the
\* name is unknown, its script is not found, its body raises, or (for the
\* electrical agent) the registry method it calls does not exist
ExecutionFails ==
    /\ call.agent \in {"LithologyExpert", "ElectricalExpert"}
    /\ call.text1 # None
    /\ call.text1.payload.kind = "object"
    /\ call.text1.payload.action = "tool_use"
    /\ \/ call.agent = "ElectricalExpert"
       \/ ToolOutcome(call.text1.payload.tool_name) # "returned"

\* C11 as claimed: after a tool_use decision whose capability execution
\* fails, whatever tool name and parameters phase 1 chose, analyze returns a
\* result and raises nothing (setting aside a phase-2 output that is JSON
\* of an unexpected shape)
C11_ExecutionFailureContained ==
    call.pc = "done" /\ ExecutionFails /\ ~Phase2Malformed =>
        /\ call.raised = NoKey
        /\ call.result # None

-----------------------------------------------------------------------------
(* Properties of reload *)

\* a manifest every entry of which registers
WellFormed(m) ==
    /\ m.kind = "yaml"
    /\ \A i \in DOMAIN m.tools : m.tools[i].name # UnhashableName

\* a manifest that does not parse, or one of whose entries fails to register
FailsToLoad(m) == m.kind = "bad" \/ (m.kind = "yaml" /\ ~WellFormed(m))

\* a reload has run to its end and the shared registry is what it built
ReloadDone == reloader.pc = "idle" /\ reloader.done >= 1

\* the index holds the pack of directory d and every named tool of it
Indexed(idx, d) ==
    LET m == disk[d] IN
    /\ PackName(d, m) \in DOMAIN idx.skill_packs
    /\ \A i \in DOMAIN m.tools :
           m.tools[i].name \notin {Absent, UnhashableName}
               => DictHas(idx.tools, m.tools[i].name)

\* the index holds nothing of directory d
Skipped(idx, d) ==
    LET m == disk[d] IN
    m.kind = "yaml" =>
        /\ PackName(d, m) \notin DOMAIN idx.skill_packs
        /\ \A i \in DOMAIN m.tools : ~DictHas(idx.tools, m.tools[i].name)

\* C12 as claimed: after reload, every directory whose manifest fails to
\* parse or load is skipped, and every well-formed directory is indexed,
\* whatever the order of the scan
C12_FailingPackSkipped ==
    ReloadDone =>
        \A d \in Dirs :
            /\ WellFormed(disk[d]) => Indexed(objs[registry_global], d)
            /\ FailsToLoad(disk[d]) => Skipped(objs[registry_global], d)

\* the content of an index, without the order of insertion
IndexContent(idx) ==
    [names |-> {idx.tools[i].name : i \in DOMAIN idx.tools},
     descriptors |-> SeqToSet(idx.tools),
     packs |-> DOMAIN idx.skill_packs,
     pack_tools |-> [p \in DOMAIN idx.skill_packs |->
                        SeqToSet(idx.skill_packs[p].tools)]]

-----------------------------------------------------------------------------
(* Properties of match_tools_by_keywords and list_tools_for_agent *)

\* how many times the descriptor t occurs in the list q
Occurrences(q, t) == Cardinality({i \in DOMAIN q : q[i] = t})

\* a keyword occurs in the question, letter case set aside
KeywordOccurs(kw, question) ==
    \E i \in 0..(Len(question) - Len(kw)) :
        \A j \in 1..Len(kw) :
            LowerChar(question[i + j]) = LowerChar(kw[j])

\* C14: match returns a candidate exactly when one of its trigger keywords
\* occurs in the question as a substring, letter case set aside, and
\* returns a matching candidate once however many of its keywords occur
C14_KeywordMatch ==
    reader.pc = "done" /\ reader.op = "match" =>
        \A t \in SeqToSet(reader.acc) :
            Occurrences(reader.value, t) =
                IF \E kw \in t.trigger_keywords : KeywordOccurs(kw, reader.question)
                THEN Occurrences(reader.acc, t) ELSE 0

\* C14 witness: the question "cVsh?" returned calculate_vsh, two keywords
\* of which occur in it, and did not return a candidate without a keyword
\* in it
C14_Witness ==
    /\ reader.pc = "done"
    /\ reader.op = "match"
    /\ reader.question = <<"c", "V", "s", "h", "?">>
    /\ \E t \in SeqToSet(reader.value) :
          /\ t.name = "calculate_vsh"
          /\ Cardinality({kw \in t.trigger_keywords :
                             KeywordOccurs(kw, reader.question)}) = 2
    /\ \E t \in SeqToSet(reader.acc) : t \notin SeqToSet(reader.value)

\* C15 as claimed: whatever the list of pack ids, the empty list included,
\* every tool match returns for it is a tool list_tools_for_agent returns
\* for the same list
C15_MatchWithinListFor ==
    reader.pc = "done" /\ reader.op = "match" =>
        SeqToSet(reader.value) \subseteq
            SeqToSet(ListFor(objs[reader.obj], reader.packs))

\* the tool names the manifests on disk declare for the pack ids given
DeclaredNames(packs) ==
    UNION { {disk[d].tools[i].name : i \in DOMAIN disk[d].tools} :
              d \in {x \in Dirs : /\ disk[x].kind = "yaml"
                                  /\ PackName(x, disk[x]) \in SeqToSet(packs)} }

\* C16: list_tools_for_agent returns the tools the manifests declare for
\* the registered packs named in its argument, nothing for an id that names
\* no registered pack, and raises nothing
C16_ListForExact ==
    reader.pc = "done" /\ reader.op = "list" =>
        /\ reader.raised = NoKey
        /\ {t.name : t \in SeqToSet(reader.value)} = DeclaredNames(reader.packs)
        /\ \A t \in SeqToSet(reader.value) :
               t.skill_pack # Absent => t.skill_pack \in SeqToSet(reader.packs)

\* C16 witness: a list with an unknown id before a known one returned the
\* tools of the known pack
C16_Witness ==
    /\ reader.pc = "done"
    /\ reader.op = "list"
    /\ reader.packs = <<"unknown", "lithology">>
    /\ reader.raised = NoKey
    /\ Len(reader.value) >= 2

-----------------------------------------------------------------------------
(* Properties of the router *)

\* the router has decided on the history in the state
RouterDecided == last_visit.node \in {"router", "router_again"}

UserEntries(h) == {i \in DOMAIN h : IsUserEntry(h[i])}

\* the most recent user-authored entry of a history that has one
MostRecentUserEntry(h) ==
    h[CHOOSE i \in UserEntries(h) : \A j \in UserEntries(h) : j <= i]

\* the keys, in precedence order, whose keywords occur in the entry
MatchingRanks(msg) ==
    {i \in DOMAIN priority_order :
        /\ priority_order[i] \in DOMAIN get_router_keywords
        /\ \E kw \in get_router_keywords[priority_order[i]] :
               KeywordOccurs(kw, msg.text)}

\* C17 as claimed: with a user-authored entry in the history, the router
\* returns the first key in precedence order one of whose keywords occurs
\* in the most recent user-authored entry, letter case set aside
C17_MostRecentUserEntry ==
    RouterDecided /\ UserEntries(discussion_history) # {} =>
        LET ranks == MatchingRanks(MostRecentUserEntry(discussion_history))
        IN  ranks # {} =>
              /\ router_decision \in {priority_order[i] : i \in ranks}
              /\ \A i \in ranks :
                     router_decision = priority_order[i] \/
                     \E j \in ranks : j < i

-----------------------------------------------------------------------------
(* Properties of the specialist node *)

\* C20: a specialist visit takes the agent and the question of the
\* arbitrator output in the state when that output names a next_agent, and
\* otherwise the router's key with no question
C20_SpecialistDispatch ==
    [][pc = "specialist" /\ last_visit'.node = "specialist" =>
          IF arbitrator_output # None /\ arbitrator_output.next_agent # NoKey
          THEN /\ last_visit'.agent_key = arbitrator_output.next_agent
               /\ last_visit'.question = arbitrator_output.question_for_agent
               /\ last_visit'.via = "directive"
          ELSE /\ last_visit'.agent_key = router_decision
               /\ last_visit'.question = NoKey
               /\ last_visit'.via = "router"]_vars

\* C20 witness: the arbitrator named an agent other than the router's and
\* gave a question, and the specialist visit that followed invoked it
C20_Witness ==
    /\ last_visit.node = "specialist"
    /\ last_visit.resolved
    /\ last_visit.via = "directive"
    /\ last_visit.agent_key # router_decision
    /\ last_visit.question = "q"
    /\ arb_visits >= 1

-----------------------------------------------------------------------------
(* C21: the update of a specialist visit *)

\* a step that is a specialist visit with a resolved agent returning to the
\* graph
SpecialistReturnStep ==
    /\ pc = "specialist"
    /\ pc' = "arbitrator"
    /\ last_visit'.resolved

\* C21: every specialist visit in which the agent is resolved (and whose
\* analyze returns) appends exactly one history line, of the form
\* "{agentKey}: Conf={confidence}. {reasoning}" built from the result it
\* stores under that agent key; the stored result replaces any earlier one of
\* the key; the results of all other keys, round_count and router_decision
\* are unchanged
C21_SpecialistUpdate ==
    [][SpecialistReturnStep =>
        LET k == last_visit'.agent_key
            n == Len(discussion_history)
        IN  /\ Len(discussion_history') = n + 1
            /\ SubSeq(discussion_history', 1, n) = discussion_history
            /\ k \in DOMAIN agent_results'
            /\ agent_results'[k] \in SpecialistResults
            /\ discussion_history'[n + 1] =
                   [tag |-> "specialist", key |-> k,
                    confidence |-> GetNum(agent_results'[k].confidence, 0),
                    reasoning |->
                        Get(agent_results'[k].reasoning, "str(result)")]
            /\ DOMAIN agent_results' = (DOMAIN agent_results) \cup {k}
            /\ \A x \in (DOMAIN agent_results) \ {k} :
                   agent_results'[x] = agent_results[x]
            /\ round_count' = round_count
            /\ router_decision' = router_decision]_vars

\* C21 witness: a specialist visit has just stored a result over an earlier,
\* different result of the same key, while another key holds its own result
C21_Witness ==
    /\ pc = "arbitrator"
    /\ last_visit.node = "specialist"
    /\ last_visit.resolved
    /\ Cardinality(DOMAIN agent_results) = 2
    /\ LET n == Len(discussion_history) IN
       \E i \in 1..(n - 1) :
          /\ discussion_history[i].tag = "specialist"
          /\ discussion_history[i].key = last_visit.agent_key
          /\ discussion_history[i].reasoning # discussion_history[n].reasoning
          /\ discussion_history[n].reasoning =
                Get(agent_results[last_visit.agent_key].reasoning, "str(result)")

-----------------------------------------------------------------------------
(* C22: a directive is consumed by one specialist visit *)

\* C22: every specialist visit clears the pending arbitrator directive: when
\* an arbitrator visit begins arbitrator_output is None, and a directive a
\* specialist visit is about to follow is the one the arbitrator visit just
\* before it returned
C22_DirectiveConsumedOnce ==
    /\ (pc = "arbitrator" => arbitrator_output = None)
    /\ (pc = "specialist" /\ HasDirective =>
          /\ last_visit.node = "arbitrator"
          /\ last_visit.resolved
          /\ arbitrator_output = ArbitratorAnalyze(last_visit.response))

\* C22 witness: a specialist visit that followed a directive has returned and
\* the second arbitrator visit is about to begin
C22_Witness ==
    /\ pc = "arbitrator"
    /\ arb_visits >= 1
    /\ last_visit.node = "specialist"
    /\ last_visit.via = "directive"
    /\ arbitrator_output = None

-----------------------------------------------------------------------------
(* C23: the update of an arbitrator visit *)

\* C23 as claimed: every arbitrator visit appends exactly one history line,
\* records the arbitrator's result as arbitrator_output and leaves
\* agent_results and router_decision unchanged
C23_Original ==
    [][ArbVisitStep =>
        /\ Len(discussion_history') = Len(discussion_history) + 1
        /\ arbitrator_output' # None
        /\ agent_results' = agent_results
        /\ router_decision' = router_decision]_vars

\* C23 amended: every arbitrator visit in which the arbitrator implementation
\* is resolved (and whose analyze returns) appends exactly one history line,
\* which names the dispatch target when next_agent is present, and records
\* the arbitrator's result as arbitrator_output; a visit in which the
\* implementation cannot be resolved appends no line and leaves
\* arbitrator_output as it was; every arbitrator visit leaves agent_results
\* and router_decision unchanged
C23_ArbitratorUpdate ==
    [][ArbVisitStep =>
        LET n == Len(discussion_history) IN
        /\ agent_results' = agent_results
        /\ router_decision' = router_decision
        /\ HasInstance(ArbitratorKey) =>
              /\ Len(discussion_history') = n + 1
              /\ SubSeq(discussion_history', 1, n) = discussion_history
              /\ arbitrator_output' = ArbitratorAnalyze(last_visit'.response)
              /\ discussion_history'[n + 1].tag = "Arbitrator"
              /\ discussion_history'[n + 1].status =
                     Get(arbitrator_output'.status, "UNKNOWN")
              /\ discussion_history'[n + 1].dispatch =
                     arbitrator_output'.next_agent
              /\ (arbitrator_output'.next_agent # NoKey =>
                     discussion_history'[n + 1].question =
                        arbitrator_output'.question_for_agent)
        /\ ~HasInstance(ArbitratorKey) =>
              /\ discussion_history' = discussion_history
              /\ arbitrator_output' = arbitrator_output]_vars

\* C23 witness: an arbitrator visit has returned a result with a dispatch
\* target, and the line it appended names that target
C23_Witness ==
    /\ pc = "should_continue"
    /\ last_visit.node = "arbitrator"
    /\ last_visit.resolved
    /\ arbitrator_output # None
    /\ arbitrator_output.next_agent \in get_specialist_agents
    /\ discussion_history[Len(discussion_history)].tag = "Arbitrator"
    /\ discussion_history[Len(discussion_history)].dispatch =
          arbitrator_output.next_agent

-----------------------------------------------------------------------------
(* C24: the arbitrator implementation is missing *)

ErrorOutput == final_output # None /\ final_output.status = "ERROR"

-----------------------------------------------------------------------------
(* C25: the order of the nodes of a run *)

\* C25: one node runs at a time; the router runs first and exactly once; a
\* specialist visit that returns is followed by an arbitrator visit and
\* nothing else; an arbitrator visit is entered only from a specialist
\* visit; a specialist visit is entered only from the router or from the
\* arbitrator's conditional edge
C25_NodeOrder ==
    /\ [](pc \in {"router", "specialist", "arbitrator", "should_continue",
                  "END", "raised"})
    /\ []((pc = "router") <=> (last_visit.node = "start"))
    /\ [][pc' # pc =>
          /\ (pc = "router" => pc' = "specialist")
          /\ pc' # "router"
          /\ (pc = "specialist" => pc' \in {"arbitrator", "raised"})
          /\ (pc' = "arbitrator" => pc = "specialist")
          /\ (pc = "arbitrator" => pc' \in {"should_continue", "raised"})
          /\ (pc' = "should_continue" => pc = "arbitrator")
          /\ (pc' = "specialist" => pc \in {"router", "should_continue"})
          /\ pc \notin {"END", "raised"}]_vars

\* C25 witness: the run is in its third round: router, then specialist and
\* arbitrator twice, and a third specialist visit has returned
C25_Witness ==
    /\ pc = "arbitrator"
    /\ arb_visits = 2
    /\ last_visit.node = "specialist"
    /\ router_decision # NoKey

-----------------------------------------------------------------------------
(* C26: start_node closes the open record *)

\* the steps of the records of a trace, in order
RECURSIVE StepsOf(_)
StepsOf(trace) ==
    IF trace = <<>> THEN <<>>
    ELSE <<Head(trace).step>> \o StepsOf(Tail(trace))

\* the records a logger has started, closed ones first
StartedSteps(lg) ==
    StepsOf(lg.workflow_trace)
        \o (IF lg.current_node # None THEN <<lg.current_node.step>> ELSE <<>>)

\* C26: start_node closes the open record, if there is one, with its elapsed
\* time and appends it to the trace before it opens the new record; at most
\* one record is open at any time; the records started so far are the
\* records of the trace followed by the open one, in the order in which
\* they were started
C26_StartNodeClosesOpen ==
    /\ [][tracer'.step_counter # tracer.step_counter =>
            /\ tracer'.step_counter = tracer.step_counter + 1
            /\ tracer'.workflow_trace =
                  IF tracer.current_node # None
                  THEN Append(tracer.workflow_trace,
                              [tracer.current_node EXCEPT
                                  !.duration_ms = now - tracer.current_node.start_time])
                  ELSE tracer.workflow_trace
            /\ tracer'.current_node # None
            /\ tracer'.current_node.step = tracer'.step_counter
            /\ tracer'.current_node.start_time = now]_vars
    /\ [](StartedSteps(tracer) = [i \in 1..tracer.step_counter |-> i])

\* C26 witness: two records were started at different times, the first is
\* closed in the trace with its elapsed time and the second is open
C26_Witness ==
    /\ tracer.step_counter = 2
    /\ Len(tracer.workflow_trace) = 1
    /\ tracer.workflow_trace[1].step = 1
    /\ tracer.workflow_trace[1].duration_ms = 1
    /\ tracer.current_node # None
    /\ tracer.current_node.step = 2
    /\ tracer.current_node.start_time = 1

-----------------------------------------------------------------------------
(* C28: the snapshot finalize returns *)

\* C28: finalize closes the open record and appends it to the trace; the
\* snapshot it returns holds that trace, and its total_steps is the number
\* of records started so far; no later start_node, log or finalize call
\* changes a snapshot already returned
C28_FinalizeSnapshot ==
    /\ [][Len(snapshots') # Len(snapshots) =>
            LET snap == snapshots'[Len(snapshots')] IN
            /\ Len(snapshots') = Len(snapshots) + 1
            /\ tracer'.current_node = None
            /\ tracer'.workflow_trace =
                  IF tracer.current_node # None
                  THEN Append(tracer.workflow_trace,
                              [tracer.current_node EXCEPT
                                  !.duration_ms = now - tracer.current_node.start_time])
                  ELSE tracer.workflow_trace
            /\ SnapshotContent(snap, tracer') = tracer'.workflow_trace
            /\ snap.total_steps = tracer.step_counter
            /\ snap.total_llm_calls = tracer.total_llm_calls]_vars
    /\ [][\A i \in 1..Len(snapshots) :
            /\ i <= Len(snapshots')
            /\ snapshots'[i] = snapshots[i]
            /\ SnapshotContent(snapshots'[i], tracer') =
                  SnapshotContent(snapshots[i], tracer)]_vars

\* C28 witness: a snapshot was returned after one record; a second record
\* was started, logged to and closed by a second finalize; the first
\* snapshot still holds one record and the second holds two
C28_Witness ==
    /\ Len(snapshots) = 2
    /\ snapshots[1].total_steps = 1
    /\ Len(SnapshotContent(snapshots[1], tracer)) = 1
    /\ snapshots[2].total_steps = 2
    /\ Len(SnapshotContent(snapshots[2], tracer)) = 2
    /\ SnapshotContent(snapshots[2], tracer)[2].confidence = 8
    /\ tracer.step_counter = 2
    /\ tracer.current_node = None

-----------------------------------------------------------------------------
(* C27: the run finalizes its trace at the FINAL visit *)

GenuineFinal ==
    /\ final_output # None
    /\ Get(final_output.status, "UNKNOWN") = "FINAL"

\* finalize is called only by an arbitrator visit that returns status FINAL,
\* and at most once in a run (holds for invoked and for streamed runs)
C27_FinalizeOnlyAtFinal ==
    /\ [][Len(snapshots') # Len(snapshots) =>
            /\ ArbVisitStep
            /\ snapshots = <<>>
            /\ Len(snapshots') = 1
            /\ Get(arbitrator_output'.status, "UNKNOWN") = "FINAL"
            /\ analysis_log' = snapshots'[1]]_vars
    /\ [](Len(snapshots) <= 1)

\* C27: when a run has ended, finalize has been called exactly once and the
\* finalized trace is in the state if the run ended with a genuine FINAL, and
\* finalize has not been called and no trace is in the state otherwise
C27_FinalizedTraceIffFinal ==
    pc = "END" =>
        IF GenuineFinal
        THEN Len(snapshots) = 1 /\ analysis_log # None
        ELSE snapshots = <<>> /\ analysis_log = None

-----------------------------------------------------------------------------
(* C29: the events of a streamed run *)

\* the history lines the nodes of the run have appended
RECURSIVE NodeLines(_)
NodeLines(h) ==
    IF h = <<>> THEN <<>>
    ELSE (IF IsUserEntry(Head(h)) THEN <<>> ELSE <<Head(h)>>)
            \o NodeLines(Tail(h))

\* the lines of the agent_message events, in the order of the events
RECURSIVE MessageLines(_)
MessageLines(evs) ==
    IF evs = <<>> THEN <<>>
    ELSE (IF Head(evs).type = "agent_message" THEN <<Head(evs).line>> ELSE <<>>)
            \o MessageLines(Tail(evs))

\* the lines of the update astream has not yet handed over
PendingLines == IF pending = None THEN <<>> ELSE pending.discussion_history

\* C29: the agent_message events are the history lines the nodes appended,
\* one event a line and in the order of the lines; the stream ends with one
\* terminal marker, which is its last event: done when the run reached END,
\* error when a node raised; every stream that is read to its end gets its
\* marker
C29_StreamEvents ==
    /\ [](MessageLines(events) \o PendingLines = NodeLines(discussion_history))
    /\ [](\A i \in 1..(Len(events) - 1) :
             events[i].type \notin {"done", "error"})
    /\ [](StreamClosed =>
             /\ pending = None
             /\ (events[Len(events)].type = "done") <=> (pc = "END")
             /\ (events[Len(events)].type = "error") <=> (pc = "raised"))
    /\ [][StreamClosed => events' = events]_vars
    /\ <>StreamClosed

\* C29 witness: a stream of two rounds has ended with done after four agent
\* messages and a final decision
C29_Witness ==
    /\ StreamClosed
    /\ events[Len(events)].type = "done"
    /\ Len(MessageLines(events)) = 4
    /\ Len(events) = 6
    /\ events[5].type = "final_decision"

-----------------------------------------------------------------------------
(* C30: the slice of a depth range *)

ExtractionReturned == extraction # None /\ extraction.pc = "returned"

\* the samples of a curve at the indices whose depth is in the closed range
RECURSIVE SamplesInRange(_, _, _, _, _)
SamplesInRange(values, depth_values, i, start_depth, end_depth) ==
    IF i > Len(values) THEN <<>>
    ELSE (IF /\ depth_values[i] # AbsentNum
             /\ depth_values[i] >= start_depth
             /\ depth_values[i] <= end_depth
          THEN <<values[i]>> ELSE <<>>)
            \o SamplesInRange(values, depth_values, i + 1, start_depth, end_depth)

SomeDepthInRange(depth_values, start_depth, end_depth) ==
    \E i \in 1..Len(depth_values) :
        /\ depth_values[i] # AbsentNum
        /\ depth_values[i] >= start_depth
        /\ depth_values[i] <= end_depth

\* C30: when at least one depth sample lies in [start_depth, end_depth], the
\* result holds every curve of the log, each with exactly its samples at the
\* indices whose depth lies in the range, in their original order, so all
\* returned curves have one length and stay aligned
C30_ExactRange ==
    ExtractionReturned /\ extraction.curves # <<>> =>
        LET curves == extraction.curves
            depth_values == CurveValues(curves, DepthKey(curves))
            a == extraction.start_depth
            b == extraction.end_depth
            out == extraction.result.curves
        IN  SomeDepthInRange(depth_values, a, b) =>
              /\ extraction.result.kind = "sliced"
              /\ Len(out) = Len(curves)
              /\ \A k \in 1..Len(curves) :
                    /\ out[k][1] = curves[k][1]
                    /\ out[k][2] =
                          SamplesInRange(curves[k][2], depth_values, 1, a, b)
                    /\ Len(out[k][2]) = Len(out[1][2])

\* C30 witness: a log of three samples, one of them without a depth, sliced
\* to the two samples whose depths are the bounds of the range
C30_Witness ==
    /\ ExtractionReturned
    /\ extraction.curves =
          << <<"DEPT", <<1, AbsentNum, 2>> >>, <<"GR", <<11, 12, 13>> >> >>
    /\ extraction.start_depth = 1
    /\ extraction.end_depth = 2
    /\ extraction.result.curves =
          << <<"DEPT", <<1, 2>> >>, <<"GR", <<11, 13>> >> >>

-----------------------------------------------------------------------------
(* C31: the slice of a request that misses every sample *)

\* the depth column of the request has a sample, and none in the range
NearMiss ==
    /\ ExtractionReturned
    /\ DepthKey(extraction.curves) # NoKey
    /\ LET depth_values ==
              CurveValues(extraction.curves, DepthKey(extraction.curves))
       IN  /\ ~SomeDepthInRange(depth_values, extraction.start_depth,
                                extraction.end_depth)
           /\ \E i \in 1..Len(depth_values) : depth_values[i] # AbsentNum

\* the indices the claim names: the window around the nearest sample for a
\* point selection, the nearest sample alone otherwise
NearMissIndices(depth_values, start_depth, end_depth) ==
    LET n == NearestIdx(depth_values, start_depth) IN
    IF Abs(end_depth - start_depth) = 0
    THEN IndexRange(Max(1, n - window_size),
                    Min(Len(depth_values), n + window_size))
    ELSE <<n>>

\* C31: when no depth sample lies in the requested range and the depth curve
\* has a non-null sample, the call returns a non-empty slice: every curve at
\* the window of up to window_size samples on each side of the sample nearest
\* to start_depth for a point selection, at the nearest sample otherwise
C31_NearMissFallback ==
    NearMiss =>
        LET curves == extraction.curves
            depth_values == CurveValues(curves, DepthKey(curves))
            indices == NearMissIndices(depth_values, extraction.start_depth,
                                       extraction.end_depth)
        IN  /\ extraction.result.kind = "sliced"
            /\ indices # <<>>
            /\ extraction.result.curves = SliceCurves(curves, indices)

-----------------------------------------------------------------------------
(* C32: the two phases of a specialist's analyze *)

TwoPhaseDone == call.pc = "done" /\ call.agent = "LithologyExpert"

\* the phase-1 text of the call parsed to a tool_use decision
Phase1ToolUse ==
    /\ call.text1 # None
    /\ parse_json_response(call.text1) # ValueErr
    /\ parse_json_response(call.text1).kind = "object"
    /\ parse_json_response(call.text1).action = "tool_use"

\* what analyze returns for the phase-2 text of the call
Phase2Return ==
    IF parse_json_response(call.text2) = ValueErr
    THEN FormatError("Format Error in Stage 2")
    ELSE Synthesis(parse_json_response(call.text2), call.tool_name)

\* the order and the number of the steps of a call: a capability runs at most
\* once and only after a tool_use decision, one phase-2 reasoning call
\* follows it, and no capability and no phase-2 call follow another decision
C32_Sequencing ==
    /\ call.agent = "LithologyExpert" =>
         /\ call.n_exec <= 1
         /\ call.n_exec = 1 => Phase1ToolUse /\ call.pc \in {"phase2", "done"}
         /\ call.text2 # None => call.n_exec = 1
    /\ TwoPhaseDone =>
         /\ call.n_exec = 1 => call.n_think = 2 /\ call.text2 # None
         /\ ~Phase1ToolUse => call.n_exec = 0 /\ call.n_think = 1

\* C32: a capability is executed only after a phase-1 tool_use result, at
\* most once per analyze call, and is followed by exactly one phase-2
\* reasoning call whose result is the one analyze returns; a final_answer or
\* escalate result leads to no execution and no phase-2 call
C32_TwoPhase ==
    /\ C32_Sequencing
    /\ TwoPhaseDone /\ call.n_exec = 1 =>
         /\ call.raised = NoKey
         /\ call.result = Phase2Return

-----------------------------------------------------------------------------
(* C33: a specialist visit whose agent key is not in the table *)

\* a specialist visit that finds no agent under the key it chose
UnresolvedVisitStep ==
    /\ pc = "specialist"
    /\ pc' # pc
    /\ ~HasInstance(SpecialistKey)

\* C33: a specialist visit whose agent key cannot be resolved raises no
\* exception, appends exactly one error line to the history, leaves
\* agent_results and round_count unchanged, and hands the run to the
\* arbitrator
C33_UnresolvedSpecialist ==
    [][UnresolvedVisitStep =>
        /\ pc' = "arbitrator"
        /\ discussion_history' =
               Append(discussion_history,
                      [tag |-> "Error", key |-> SpecialistKey])
        /\ agent_results' = agent_results
        /\ round_count' = round_count]_vars

\* C33 witness: the arbitrator is next after a specialist visit that found
\* no agent under its key and appended its error line, with no result stored
C33_Witness ==
    /\ pc = "arbitrator"
    /\ last_visit.node = "specialist"
    /\ ~last_visit.resolved
    /\ agent_results = <<>>
    /\ discussion_history[Len(discussion_history)] =
           [tag |-> "Error", key |-> last_visit.agent_key]

-----------------------------------------------------------------------------
(* C35: the agent a specialist visit runs *)

\* the keys router_node can return
RouterKeys == {priority_order[i] : i \in 1..Len(priority_order)}

-----------------------------------------------------------------------------
(* C34: what a pack that failed to load leaves in the index *)

\* the directory has an entry in the skill-pack index
PackEntryOf(idx, d) ==
    \E p \in DOMAIN idx.skill_packs : idx.skill_packs[p].directory = d

\* the entries of the capability index registered from the directory
ToolEntriesOf(idx, d) ==
    {i \in DOMAIN idx.tools : idx.tools[i].directory = d}

\* C34: after reload() a skill pack whose loading failed at any point has no
\* entry in the skill-pack index and none in the capability index; a pack
\* that has an entry in either index has its pack entry and all of its named
\* capabilities
C34_AllOrNothing ==
    ReloadDone =>
        \A d \in Dirs :
            LET idx == objs[registry_global]
                m == disk[d]
            IN  /\ FailsToLoad(m) =>
                     ~PackEntryOf(idx, d) /\ ToolEntriesOf(idx, d) = {}
                /\ PackEntryOf(idx, d) \/ ToolEntriesOf(idx, d) # {} =>
                     /\ PackEntryOf(idx, d)
                     /\ \A i \in DOMAIN m.tools :
                            m.tools[i].name # Absent =>
                                \E j \in ToolEntriesOf(idx, d) :
                                    idx.tools[j].name = m.tools[i].name

\* the same statement for the packs whose manifest does not parse and for
\* the packs that load: the first leave nothing, the second are complete
C34_ParseFailureOrLoaded ==
    ReloadDone =>
        \A d \in Dirs :
            LET idx == objs[registry_global]
                m == disk[d]
            IN  /\ m.kind \in {"bad", "none"} =>
                     ~PackEntryOf(idx, d) /\ ToolEntriesOf(idx, d) = {}
                /\ WellFormed(m) =>
                     /\ PackEntryOf(idx, d)
                     /\ \A i \in DOMAIN m.tools :
                            m.tools[i].name # Absent =>
                                \E j \in ToolEntriesOf(idx, d) :
                                    idx.tools[j].name = m.tools[i].name

-----------------------------------------------------------------------------
(* C36: listed capabilities and the name index *)

ListReturned == reader.pc = "done" /\ reader.op = "list" /\ reader.raised = NoKey

\* C36: after a reload, every capability list_tools_for_agent returns is in
\* the name index under its own name with the same descriptor, so that
\* execute_tool of a listed name runs the implementation of the pack it was
\* listed for, also when two packs declare the same capability name or the
\* same pack id
C36_ListedIsIndexed ==
    ListReturned =>
        \A i \in 1..Len(reader.value) :
            /\ DictHas(ReaderIndex.tools, reader.value[i].name)
            /\ DictGet(ReaderIndex.tools, reader.value[i].name) = reader.value[i]

\* the same statement where no two packs of the directory declare one
\* capability name
C36_ListedIsIndexedDistinctNames ==
    ListReturned /\ disk # DiskSameName =>
        \A i \in 1..Len(reader.value) :
            /\ DictHas(ReaderIndex.tools, reader.value[i].name)
            /\ DictGet(ReaderIndex.tools, reader.value[i].name) = reader.value[i]

-----------------------------------------------------------------------------
(* C37: what a reader of the agent table gets beside reload_registry *)

ReadDone == loader.r.pc = "done"

\* the tables load_agents builds from the registry file, then and now
CompleteTables == {TableOf(RegistryFileOld), TableOf(RegistryFile)}

\* C37: a reader of the agent table that runs beside reload_registry() gets
\* a previously published complete table or a complete freshly built one,
\* never a partially populated one
C37_ReaderSeesCompleteTable ==
    ReadDone =>
        /\ loader.r.raised = NoKey
        /\ loader.r.result \in CompleteTables

\* the dict a reader gets, when it gets one, is never the local dict of a
\* load that is still in its loop
C37_NeverPartial ==
    ReadDone /\ loader.r.result # None =>
        loader.r.result \in CompleteTables \cup {Table({})}

-----------------------------------------------------------------------------
(* C38: the step counter of a logger *)

OpenRecords(lg) == IF lg.current_node # None THEN 1 ELSE 0

\* C38: after any sequence of start_node, log and finalize calls on one
\* logger, the step counter is the number of records in workflow_trace plus
\* one if a record is open, and the records of workflow_trace carry the step
\* numbers 1, 2, 3, ... in order (the open record, if any, the next one)
C38_StepCounter ==
    /\ tracer.step_counter = Len(tracer.workflow_trace) + OpenRecords(tracer)
    /\ \A i \in 1..Len(tracer.workflow_trace) :
           tracer.workflow_trace[i].step = i
    /\ tracer.current_node # None =>
           tracer.current_node.step = tracer.step_counter

\* C38 witness: a record was started after a finalize and closed by a second
\* finalize
C38_Witness ==
    /\ Len(snapshots) = 2
    /\ snapshots[1].total_steps = 1
    /\ tracer.step_counter = 2
    /\ tracer.current_node = None
    /\ Len(tracer.workflow_trace) = 2

-----------------------------------------------------------------------------
(* C39: the totals of a snapshot and its records *)

\* the reasoning calls the records of a trace hold, and their tokens
RECURSIVE RecordedCalls(_)
RecordedCalls(trace) ==
    IF trace = <<>> THEN 0
    ELSE (IF Head(trace).llm_call # None THEN 1 ELSE 0)
            + RecordedCalls(Tail(trace))

RECURSIVE RecordedPrompt(_)
RecordedPrompt(trace) ==
    IF trace = <<>> THEN 0
    ELSE (IF Head(trace).llm_call # None
          THEN Head(trace).llm_call.prompt_tokens ELSE 0)
            + RecordedPrompt(Tail(trace))

RECURSIVE RecordedCompletion(_)
RecordedCompletion(trace) ==
    IF trace = <<>> THEN 0
    ELSE (IF Head(trace).llm_call # None
          THEN Head(trace).llm_call.completion_tokens ELSE 0)
            + RecordedCompletion(Tail(trace))

\* C39: in every snapshot finalize() returns, total_llm_calls is the number
\* of reasoning calls recorded in the records of workflow_trace and the
\* prompt and completion totals are the sums of the tokens recorded there,
\* for any interleaving of start_node and log_llm_call
C39_TotalsAgree ==
    \A i \in 1..Len(snapshots) :
        LET snap == snapshots[i]
            trace == SnapshotContent(snap, tracer)
        IN  /\ snap.total_llm_calls = RecordedCalls(trace)
            /\ snap.prompt_tokens = RecordedPrompt(trace)
            /\ snap.completion_tokens = RecordedCompletion(trace)

\* the totals of a snapshot are never below what its records hold
C39_TotalsCoverRecords ==
    \A i \in 1..Len(snapshots) :
        LET snap == snapshots[i]
            trace == SnapshotContent(snap, tracer)
        IN  /\ snap.total_llm_calls >= RecordedCalls(trace)
            /\ snap.prompt_tokens >= RecordedPrompt(trace)
            /\ snap.completion_tokens >= RecordedCompletion(trace)
            /\ snap.total_tokens = snap.prompt_tokens + snap.completion_tokens


-----------------------------------------------------------------------------
(* Properties of the replies of the entry points *)

ReplyReturned == response # None /\ response.pc = "returned"

FlaggedMessages ==
    { i \in 1..Len(response.messages) : response.messages[i].is_final }

LastVisitStatus ==
    response.result.origin[Len(response.result.origin)].status

\* C40: in the reply of the synchronous and of the streaming entry point a
\* message is flagged is_final only if an arbitrator visit with status FINAL
\* wrote its line; when the run ends without FINAL no message is flagged and
\* no final decision is reported.
C40_IsFinalOnlyAtFinal ==
    ReplyReturned =>
        /\ \A i \in FlaggedMessages :
              LET o == response.result.origin[response.messages[i].index]
              IN  o.node = "arbitrator" /\ o.status = StatusFinal
        /\ LastVisitStatus # StatusFinal =>
              /\ FlaggedMessages = {}
              /\ response.final_decision = None

\* What holds of the replies: only lines of the arbitrator are flagged, the
\* line of a visit with status FINAL is flagged, and a final decision is
\* reported exactly when the last visit had status FINAL.
C40_FlaggedAreArbitratorLines ==
    ReplyReturned =>
        /\ \A i \in FlaggedMessages :
              response.result.origin[response.messages[i].index].node
                  = "arbitrator"
        /\ \A i \in 1..Len(response.messages) :
              LET o == response.result.origin[response.messages[i].index]
              IN  (o.node = "arbitrator" /\ o.status = StatusFinal)
                      => response.messages[i].is_final
        /\ response.final_decision # None <=> LastVisitStatus = StatusFinal

=============================================================================
